---- MODULE Spec2Model ----
(***************************************************************************)
(* Model of the seven-step customer-service audio test pipeline:           *)
(*   models/test_models.py      TestResult, TestScript, progress mapping   *)
(*   services/test_orchestrator.py   TestOrchestrator.run_full_test        *)
(*   api/routes.py              start_test, get_test_status, run_test      *)
(*                                                                         *)
(* One run is modelled.  The record of the run is the variable `result`;   *)
(* the position of the run's task is `pc`.  Every update_step_status and   *)
(* complete_current_step call of the executors is one step of the model,   *)
(* so that a property of "every mutation" quantifies over the steps.       *)
(*                                                                         *)
(* Numbers.  step_progress is a whole percentage.  overall_progress is     *)
(* held in sevenths of a percent: the code computes                        *)
(*   base + (step_progress / 100) * (100 / 7)  =  base + step_progress/7   *)
(* so 7 * overall_progress = 7 * base + step_progress is an integer.       *)
(***************************************************************************)
EXTENDS Integers, Sequences, FiniteSets, TLC

(* ---------------------------------------------------------------------- *)
(* Bounds                                                                   *)
(* ---------------------------------------------------------------------- *)
MaxLines == 2

MaxPolls == 2

\* The number of runs start_test creates, one after the other, in
\* RegistrySpec.
MaxRuns == 2

\* How far below 0 and above 100 the progress arguments tried on
\* update_step_status reach.
MaxOvershoot == 3

\* The seconds after the creation of its record up to which a report
\* query is served.
MaxElapsed == 2

\* The number of files the audio store holds at most.
MaxFiles == 2

(* ---------------------------------------------------------------------- *)
(* Enumerations and tables of models/test_models.py                         *)
(* ---------------------------------------------------------------------- *)
PENDING == "pending"

RUNNING == "running"

COMPLETED == "completed"

FAILED == "failed"

TestStatus == {PENDING, RUNNING, COMPLETED, FAILED}

IDLE == "idle"

PREPROCESSING == "preprocessing"

STARTUP == "startup"

TTS_CONVERSION == "tts_conversion"

RECORDING == "recording"

STORAGE == "storage"

LLM_ANALYSIS == "llm_analysis"

COMPLETION == "completion"

\* The members of TestStep in declaration order (IDLE first).
TestStep == <<IDLE, PREPROCESSING, STARTUP, TTS_CONVERSION, RECORDING,
              STORAGE, LLM_ANALYSIS, COMPLETION>>

\* step_weight = 100 / 7 : the number of steps of the pipeline.
TOTAL_STEPS == 7

STEP_PROGRESS_MAPPING_Low ==
    (IDLE :> 0) @@ (PREPROCESSING :> 14) @@ (STARTUP :> 28)
    @@ (TTS_CONVERSION :> 43) @@ (RECORDING :> 57) @@ (STORAGE :> 71)
    @@ (LLM_ANALYSIS :> 26) @@ (COMPLETION :> 100)

STEP_PROGRESS_MAPPING ==
    (IDLE :> 0) @@ (PREPROCESSING :> 14) @@ (STARTUP :> 28)
    @@ (TTS_CONVERSION :> 43) @@ (RECORDING :> 57) @@ (STORAGE :> 71)
    @@ (LLM_ANALYSIS :> 86) @@ (COMPLETION :> 100)

(* ---------------------------------------------------------------------- *)
(* Helpers                                                                  *)
(* ---------------------------------------------------------------------- *)
Min(a, b) == IF a <= b THEN a ELSE b

Max(a, b) == IF a >= b THEN a ELSE b

Range(s) == {s[i] : i \in 1..Len(s)}

\* Index of a step in TestStep, counted from 0 (IDLE = 0, COMPLETION = 7).
StepIndex(s) == (CHOOSE i \in 1..8 : TestStep[i] = s) - 1

\* The first k pipeline steps in order.
StepPrefix(k) == [i \in 1..k |-> TestStep[i + 1]]

(* ---------------------------------------------------------------------- *)
(* Scripts.  A script is the sequence of its lines (content.split("\n")),  *)
(* each line one of six shapes:                                            *)
(*   EMPTY  the zero-length line        SPACE  a whitespace-only line      *)
(*   CUST   "customer: ..."             AGENT  "agent: ..."                *)
(*   OTHER  "<unknown role>: ..."       TEXT   a line without a colon      *)
(* The empty string "" is the script <<EMPTY>>.                            *)
(* ---------------------------------------------------------------------- *)
LineKinds == {"EMPTY", "SPACE", "CUST", "AGENT", "OTHER", "TEXT"}

BlankLines == {"EMPTY", "SPACE"}

Scripts == UNION {[1..n -> LineKinds] : n \in 1..MaxLines}

\* `not script_content`: the string has no character at all.
IsEmptyString(script) == script = <<"EMPTY">>

\* `not script_content.strip()`: only whitespace and newlines.
IsBlank(script) == \A i \in 1..Len(script) : script[i] \in BlankLines

\* content.strip().split("\n"): leading and trailing blank lines go, the
\* blank lines in between stay; a blank script gives the one line "".
RECURSIVE StripLeft(_)
StripLeft(s) ==
    IF s = <<>> THEN <<>>
    ELSE IF Head(s) \in BlankLines THEN StripLeft(Tail(s)) ELSE s

RECURSIVE StripRight(_)
StripRight(s) ==
    IF s = <<>> THEN <<>>
    ELSE IF s[Len(s)] \in BlankLines THEN StripRight(SubSeq(s, 1, Len(s) - 1))
    ELSE s

StripSplit(script) ==
    LET t == StripRight(StripLeft(script))
    IN IF t = <<>> THEN <<"EMPTY">> ELSE t

\* TestScript.parse_content: the speaker of every line that has a colon and
\* a known role before it, in script order.
RECURSIVE ParseLines(_)
ParseLines(s) ==
    IF s = <<>> THEN <<>>
    ELSE IF Head(s) = "CUST" THEN <<"customer">> \o ParseLines(Tail(s))
    ELSE IF Head(s) = "AGENT" THEN <<"agent">> \o ParseLines(Tail(s))
    ELSE ParseLines(Tail(s))

parse_content_KeepsAll(script) ==
    [i \in 1..Len(StripSplit(script)) |->
        IF StripSplit(script)[i] = "AGENT" THEN "agent" ELSE "customer"]

parse_content(script) == ParseLines(StripSplit(script))

(* ---------------------------------------------------------------------- *)
(* TestResult                                                               *)
(* ---------------------------------------------------------------------- *)
None == "None"

\* apis_verified holds one entry per probe: None while the key is absent,
\* otherwise the boolean the probe returned.
Bool(b) == IF b THEN "True" ELSE "False"

\* error_message is a sequence of message parts; <<>> stands for None.
NoMessage == <<>>

\* The names of the free-form info mappings of the record.
InfoFields == {"script_validation_info", "startup_info", "tts_generation_info",
               "recording_info", "storage_metadata", "stt_info", "cleanup_info"}

EmptyAnalysis ==
    [populated |-> FALSE, accuracy_score |-> 0, reasoning |-> ""]

EmptyReport ==
    [populated |-> FALSE, steps_completed |-> 0, final_accuracy |-> 0,
     status |-> ""]

\* TestResult(original_script=script): the dataclass defaults.
NewTestResult(script) ==
    [status                |-> PENDING,
     original_script       |-> script,
     current_step          |-> IDLE,
     step_progress         |-> 0,
     overall_progress      |-> 0,
     completed_steps       |-> <<>>,
     parsed_dialogue_count |-> 0,
     apis_verified         |-> [tts |-> None, stt |-> None, llm |-> None],
     tts_audio             |-> None,
     recorded_audio        |-> None,
     mock_response_audio   |-> None,
     storage_file_id       |-> None,
     stt_stage             |-> "pending",
     transcribed_text      |-> "",
     stt_confidence        |-> 0,
     llm_stage             |-> "pending",
     llm_analysis          |-> EmptyAnalysis,
     accuracy_score        |-> 0,
     final_report          |-> EmptyReport,
     info                  |-> [f \in InfoFields |-> {}],
     error_message         |-> NoMessage]

calculate_overall_progress_NoCompleted(r) ==
    Min(100 * TOTAL_STEPS,
        STEP_PROGRESS_MAPPING[r.current_step] * TOTAL_STEPS + r.step_progress)

\* TestResult.calculate_overall_progress, in sevenths of a percent.
calculate_overall_progress(r) ==
    LET base_progress ==
            IF r.current_step \in DOMAIN STEP_PROGRESS_MAPPING
            THEN STEP_PROGRESS_MAPPING[r.current_step] ELSE 0
    IN IF r.current_step \in Range(r.completed_steps)
       THEN base_progress * TOTAL_STEPS
       ELSE Min(100 * TOTAL_STEPS, base_progress * TOTAL_STEPS + r.step_progress)

update_step_status_NoClamp(r, step, progress) ==
    LET r1 == [r EXCEPT !.current_step = step, !.step_progress = progress]
    IN [r1 EXCEPT !.overall_progress = calculate_overall_progress(r1)]

\* TestResult.update_step_status(step, progress) without additional_info,
\* which is how every executor calls it.
update_step_status(r, step, progress) ==
    LET r1 == [r EXCEPT !.current_step = step,
                        !.step_progress = Max(0, Min(100, progress))]
    IN [r1 EXCEPT !.overall_progress = calculate_overall_progress(r1)]

\* f"{step}_info": the attribute name update_step_status looks up for the
\* step it is given.
step_info_field ==
    (IDLE :> "idle_info") @@ (PREPROCESSING :> "preprocessing_info")
    @@ (STARTUP :> "startup_info")
    @@ (TTS_CONVERSION :> "tts_conversion_info")
    @@ (RECORDING :> "recording_info") @@ (STORAGE :> "storage_info")
    @@ (LLM_ANALYSIS :> "llm_analysis_info")
    @@ (COMPLETION :> "completion_info")

\* TestResult.update_step_status(step, progress, additional_info=...):
\* the keys are merged into the attribute named f"{step}_info" when the
\* record has such an attribute (hasattr), and dropped when it has not.
\* An info mapping is modelled by the set of its keys.
update_step_status_additional_info(r, step, progress, additional_info) ==
    LET r1 == update_step_status(r, step, progress)
    IN IF additional_info # {} /\ step_info_field[step] \in InfoFields
       THEN [r1 EXCEPT !.info[step_info_field[step]] = @ \cup additional_info]
       ELSE r1

complete_current_step_NoAppend(r) ==
    IF r.current_step # IDLE
    THEN LET r1 == [r EXCEPT !.step_progress = 100]
         IN [r1 EXCEPT !.overall_progress = calculate_overall_progress(r1)]
    ELSE r

complete_current_step_Prepend(r) ==
    IF r.current_step # IDLE
    THEN LET r1 == [r EXCEPT
                      !.completed_steps =
                          IF r.current_step \in Range(r.completed_steps)
                          THEN @ ELSE <<r.current_step>> \o @,
                      !.step_progress = 100]
         IN [r1 EXCEPT !.overall_progress = calculate_overall_progress(r1)]
    ELSE r

complete_current_step_Dup(r) ==
    IF r.current_step # IDLE
    THEN LET r1 == [r EXCEPT
                      !.completed_steps = Append(@, r.current_step),
                      !.step_progress = 100]
         IN [r1 EXCEPT !.overall_progress = calculate_overall_progress(r1)]
    ELSE r

\* TestResult.complete_current_step.
complete_current_step(r) ==
    IF r.current_step # IDLE
    THEN LET r1 == [r EXCEPT
                      !.completed_steps =
                          IF r.current_step \in Range(r.completed_steps)
                          THEN @ ELSE Append(@, r.current_step),
                      !.step_progress = 100]
         IN [r1 EXCEPT !.overall_progress = calculate_overall_progress(r1)]
    ELSE r

\* time_estimates of _estimate_remaining_time: the seconds a step is
\* expected to take; a step the table does not name (idle) counts 10.
time_estimates ==
    (IDLE :> 10) @@ (PREPROCESSING :> 5) @@ (STARTUP :> 10)
    @@ (TTS_CONVERSION :> 30) @@ (RECORDING :> 5) @@ (STORAGE :> 3)
    @@ (LLM_ANALYSIS :> 45) @@ (COMPLETION :> 5)

estimate_remaining_time_Ceiling(r) ==
    (time_estimates[r.current_step] * (100 - r.step_progress) + 99) \div 100

\* TestResult._estimate_remaining_time: int() drops the fraction of
\* base_time * remaining_ratio and max() keeps the answer at 1 or more.
estimate_remaining_time(r) ==
    Max(1, (time_estimates[r.current_step] * (100 - r.step_progress)) \div 100)

\* TestResult.get_step_detail, the sub_stage label: while the current
\* step is llm_analysis, the label of transcription if stt_stage is
\* processing, else the label of analysis if llm_stage is processing;
\* None otherwise.
sub_stage(r) ==
    IF r.current_step = LLM_ANALYSIS
    THEN IF r.stt_stage = "processing" THEN "STT_PROCESSING"
         ELSE IF r.llm_stage = "processing" THEN "LLM_PROCESSING"
         ELSE None
    ELSE None

\* TestResult.get_status_response: the fields a status query returns.
get_status_response(r) ==
    [status           |-> r.status,
     current_step     |-> r.current_step,
     step_progress    |-> r.step_progress,
     overall_progress |-> r.overall_progress,
     sub_stage        |-> sub_stage(r),
     estimated_time_remaining |-> estimate_remaining_time(r),
     completed_steps  |-> r.completed_steps,
     error_message    |-> r.error_message]

grade_color_Strict(accuracy) ==
    IF accuracy > 90 THEN "excellent"
    ELSE IF accuracy > 80 THEN "good"
    ELSE IF accuracy > 70 THEN "fair"
    ELSE "poor"

\* The grade get_test_report derives from the accuracy score; the grades
\* are named by their grade_color.
grade_color(accuracy) ==
    IF accuracy >= 90 THEN "excellent"
    ELSE IF accuracy >= 80 THEN "good"
    ELSE IF accuracy >= 70 THEN "fair"
    ELSE "poor"

\* get_test_report: the reply to a report query on the record r, served
\* `elapsed` seconds after the record was created
\* (datetime.now() - result.timestamp).
get_test_report(r, elapsed) ==
    IF r.status \notin {COMPLETED, FAILED}
    THEN [kind |-> "in_progress", status |-> r.status,
          current_step |-> r.current_step,
          overall_progress |-> r.overall_progress]
    ELSE IF r.status = FAILED
    THEN [kind |-> "failed", status |-> r.status,
          error |-> r.error_message, failed_at_step |-> r.current_step,
          completed_steps |-> r.completed_steps]
    ELSE [kind |-> "report", accuracy_score |-> r.accuracy_score,
          grade_color |-> grade_color(r.accuracy_score),
          reasoning |-> r.llm_analysis.reasoning,
          completed_steps |-> Len(r.completed_steps),
          final_step |-> r.current_step,
          overall_progress |-> r.overall_progress,
          test_duration |-> IF r.final_report.populated THEN elapsed ELSE 0]

\* TestResult.to_dict: the reply to a result query.
to_dict(r) ==
    [status |-> r.status, current_step |-> r.current_step,
     step_progress |-> r.step_progress,
     overall_progress |-> r.overall_progress,
     completed_steps |-> r.completed_steps,
     original_script |-> r.original_script,
     transcribed_text |-> r.transcribed_text,
     llm_analysis |-> r.llm_analysis, accuracy_score |-> r.accuracy_score,
     error_message |-> r.error_message, tts_audio |-> r.tts_audio,
     recorded_audio |-> r.recorded_audio,
     mock_response_audio |-> r.mock_response_audio,
     estimated_time_remaining |-> estimate_remaining_time(r),
     parsed_dialogue_count |-> r.parsed_dialogue_count,
     apis_verified |-> r.apis_verified,
     storage_file_id |-> r.storage_file_id,
     stt_confidence |-> r.stt_confidence, final_report |-> r.final_report]

\* get_test_steps: the reply to a steps query.
get_test_steps(r) ==
    [current_step |-> r.current_step,
     overall_progress |-> r.overall_progress,
     steps |-> [k \in 1..TOTAL_STEPS |->
                   IF TestStep[k + 1] \in Range(r.completed_steps)
                   THEN [status |-> "completed", progress |-> 100]
                   ELSE IF TestStep[k + 1] = r.current_step
                   THEN [status |-> "active", progress |-> r.step_progress]
                   ELSE [status |-> "pending", progress |-> 0]]]

(* ---------------------------------------------------------------------- *)
(* Exceptions.  An exception is its class and its message; the message is  *)
(* the sequence of its parts, outermost prefix first.  "Exception" stands  *)
(* for every Exception subclass that run_full_test names in no handler     *)
(* (FileNotFoundError, AttributeError, OSError, ...).                      *)
(* ---------------------------------------------------------------------- *)
ExcKinds == {"ValueError", "RuntimeError", "TypeError", "KeyError", "Exception"}

NoExc == [kind |-> "none", msg |-> <<>>]

Exc(kind, text) == [kind |-> kind, msg |-> <<text>>]

\* The prefix each executor puts before the cause when it re-raises.
STEP_FAILED ==
    (PREPROCESSING :> "STEP1_FAILED") @@ (STARTUP :> "STEP2_FAILED")
    @@ (TTS_CONVERSION :> "STEP3_FAILED") @@ (RECORDING :> "STEP4_FAILED")
    @@ (STORAGE :> "STEP5_FAILED") @@ (LLM_ANALYSIS :> "STEP6_FAILED")
    @@ (COMPLETION :> "STEP7_FAILED")

step_except_NoWrap(step, e) == e

step_except_DropCause(step, e) ==
    [kind |-> "RuntimeError", msg |-> <<STEP_FAILED[step]>>]

\* `except Exception as e: raise RuntimeError(f"<step> failed: {e}") from e`
\* at the end of every executor.
step_except(step, e) ==
    [kind |-> "RuntimeError", msg |-> <<STEP_FAILED[step]>> \o e.msg]

run_full_test_handler_NoValueError(kind) ==
    CASE kind = "RuntimeError" -> "RUNTIME_ERROR"
      [] kind \in {"TypeError", "KeyError"} -> "TYPE_OR_KEY_ERROR"
      [] OTHER -> "uncaught"

\* The except clauses of run_full_test: the prefix written before the
\* message, or "uncaught" when no clause names the class.
run_full_test_handler(kind) ==
    CASE kind = "ValueError" -> "VALUE_ERROR"
      [] kind = "RuntimeError" -> "RUNTIME_ERROR"
      [] kind \in {"TypeError", "KeyError"} -> "TYPE_OR_KEY_ERROR"
      [] OTHER -> "uncaught"

\* The except clauses of the run_test wrapper.
run_test_handler(kind) == kind \in {"ValueError", "RuntimeError"}

(* ---------------------------------------------------------------------- *)
(* Collaborators: what each call can return or raise.                      *)
(* ---------------------------------------------------------------------- *)
\* LLMService.test_connection turns APIError, ValueError, ConnectionError
\* and TimeoutError into False; any other exception leaves it.
LLMProbeRaises == {"RuntimeError", "TypeError", "KeyError", "Exception"}

\* TTSService.generate_dialogue_audio has no handler of its own.
TTSRaises == ExcKinds

\* simulate_call, store_audio, transcribe_audio and analyze_conversation
\* re-raise everything as RuntimeError.
WrappedRaises == {"RuntimeError"}

\* What the transcription collaborator can hand to the orchestrator:
\* nothing, white space only, or text.
Transcripts == {"", " ", "text"}

\* accuracy_score values the analysis can return (clamped to 0..100).
Scores == {0, 69, 70, 79, 80, 89, 90, 100}

IsBlankText_OnlyEmpty(t) == t = ""

\* not transcribed_text.strip()
IsBlankText(t) == t \in {"", " "}

\* What the backend can answer to the analysis request: a JSON object with
\* a numeric accuracy_score, text that is not JSON, JSON that is not an
\* object (a list, a string, a number, null), or an object whose
\* accuracy_score is not a number.
Malformed == {"unparsable", "non_object", "bad_score"}

Responses ==
    {[kind |-> "object", score |-> s] : s \in Scores}
        \cup {[kind |-> k, score |-> 0] : k \in Malformed}

\* The record _parse_analysis_response returns from its except clause.
FallbackAnalysis ==
    [populated |-> TRUE, accuracy_score |-> 0, reasoning |-> "PARSE_FAILED"]

\* LLMService._parse_analysis_response: json.loads raises JSONDecodeError
\* on text that is not JSON and float() raises ValueError or TypeError on
\* a score that is not a number, and the except clause answers both with
\* the fallback; setdefault on a value that is not a dict raises
\* AttributeError, which the except clause does not name.
parse_analysis_response(resp) ==
    CASE resp.kind = "object" ->
             [raised |-> "none",
              analysis |-> [populated |-> TRUE, accuracy_score |-> resp.score,
                            reasoning |-> "BACKEND"]]
      [] resp.kind \in {"unparsable", "bad_score"} ->
             [raised |-> "none", analysis |-> FallbackAnalysis]
      [] OTHER ->
             [raised |-> "AttributeError", analysis |-> EmptyAnalysis]

\* The record _step6_llm_analysis builds when the transcript is blank.
EmptyTranscriptAnalysis ==
    [populated |-> TRUE, accuracy_score |-> 0, reasoning |-> "STT_EMPTY"]

\* uuid.uuid4(): an id that is not among the ids in use.
uuid4(used) == CHOOSE n \in 1..(Cardinality(used) + 1) : n \notin used

store_audio_OneSlot(metadata, test_id) == (1 :> test_id)

\* AudioStorageMock.store_audio: the entry of the stored file is put into
\* audio_metadata under a new file id; of the entry the model keeps the
\* test id in its metadata.
store_audio(metadata, test_id) ==
    metadata @@ (uuid4(DOMAIN metadata) :> test_id)

\* del self.audio_metadata[file_id]
Drop(metadata, file_id) ==
    [id \in DOMAIN metadata \ {file_id} |-> metadata[id]]

\* AudioStorageMock.retrieve_audio: None for an id without an entry; for
\* an entry whose file is gone the entry is removed and the answer is
\* None; otherwise an AudioFile built from the entry.
retrieve_audio(metadata, files, file_id) ==
    IF file_id \notin DOMAIN metadata
    THEN [value |-> None, metadata |-> metadata]
    ELSE IF file_id \notin files
         THEN [value |-> None, metadata |-> Drop(metadata, file_id)]
         ELSE [value |-> "AudioFile", metadata |-> metadata]

delete_audio_KeepsEntry(metadata, files, file_id, unlink_fails) ==
    IF file_id \notin DOMAIN metadata
    THEN [value |-> Bool(FALSE), metadata |-> metadata, files |-> files]
    ELSE [value |-> Bool(TRUE), metadata |-> metadata,
          files |-> files \ {file_id}]

\* AudioStorageMock.delete_audio: False for an id without an entry
\* (_get_metadata answers None); otherwise the file is unlinked if it is
\* there and the entry removed, and the answer is True; an OSError of
\* unlink is answered with False before the entry is touched.
delete_audio(metadata, files, file_id, unlink_fails) ==
    IF file_id \notin DOMAIN metadata
    THEN [value |-> Bool(FALSE), metadata |-> metadata, files |-> files]
    ELSE IF file_id \in files /\ unlink_fails
         THEN [value |-> Bool(FALSE), metadata |-> metadata, files |-> files]
         ELSE [value |-> Bool(TRUE), metadata |-> Drop(metadata, file_id),
               files |-> files \ {file_id}]

\* AudioStorageMock.get_storage_stats: of the figures the model keeps the
\* number of entries.
get_storage_stats(metadata) ==
    [total_files |-> Cardinality(DOMAIN metadata)]

(* ---------------------------------------------------------------------- *)
(* State                                                                    *)
(* ---------------------------------------------------------------------- *)
VARIABLES
    result,          \* the TestResult of the run
    pc,              \* position of the run's task
    exc,             \* exception in flight in the task (NoExc if none)
    via,             \* how the run was created: "none", "api" or "direct"
    test_results,    \* routes.test_results: the ids in the registry
    observed,        \* the status responses served so far, in order
    response,        \* the last start request: the status code of the
                     \* HTTPException raised inside the handler's try
                     \* block (0: none) and the status code the client
                     \* got (0: no request yet)
    test_orchestrator, \* routes.test_orchestrator: the orchestrator built
                     \* at import, or None
    run,             \* the number of runs created by start_test: the id
                     \* of the latest run
    earlier,         \* the status of the records of the runs before the
                     \* latest one that are still in the registry, by id
    cause,           \* history: message of the failure as first raised
    failing_step,    \* history: the step where the failure was raised
    terminal_writes, \* history: number of writes of completed / failed
    calls,           \* history: the collaborator calls of the run, in order
    llm_response,    \* history: the kind of answer the analysis got
    retry_count,     \* _call_gpt_api's retry_count while the analysis
                     \* request is in flight, 0 otherwise
    yields,          \* history: the stages in which the task of the run
                     \* has been suspended with the status running
    replies,         \* the replies to the result, report, steps and list
                     \* queries served so far, in order
    suspended,       \* the task of another run that is in flight but not
                     \* running, with its record: <<>> or one context
    audio_metadata,  \* storage_mock.audio_metadata: the test id an entry
                     \* was stored for, by file id
    audio_files,     \* the file ids whose stored file is in AUDIO_PATH
    storage_hist     \* history of the audio store: the ids stored and not
                     \* since deleted, whether every stored file was left
                     \* in place, and the last call with its reply

vars == <<result, pc, exc, via, test_results, observed, response, run,
          earlier, cause, failing_step, terminal_writes, calls, llm_response,
          retry_count, yields, replies, suspended, audio_metadata, audio_files,
          storage_hist, test_orchestrator>>

\* The files of the audio store and its history.
shelf == <<audio_files, storage_hist>>

\* What no step of run_full_test touches but the store of step 5.
aside == <<replies, suspended>>

env == <<via, test_results, observed, response, run, earlier, aside,
         audio_metadata, shelf, test_orchestrator>>

hist == <<cause, failing_step, terminal_writes>>

trace == <<calls, llm_response, retry_count, yields>>

\* The history of a store nobody has called.
NoStorageHistory ==
    [stored |-> {}, in_place |-> TRUE, op |-> "none", file_id |-> 0,
     value |-> None, known |-> FALSE, before |-> <<>>, files_before |-> {}]

\* The history h after the call `op` on file_id was answered with value:
\* the ids in `added` were stored by it, those in `removed` deleted.
Called(h, op, file_id, value, added, removed) ==
    [h EXCEPT !.stored = (@ \cup added) \ removed,
              !.op = op, !.file_id = file_id, !.value = value,
              !.known = file_id \in h.stored,
              !.before = audio_metadata, !.files_before = audio_files]

Loaded ==
    /\ result = NewTestResult(<<"EMPTY">>)
    /\ pc = "idle"
    /\ exc = NoExc
    /\ via = "none"
    /\ test_results = {}
    /\ observed = <<>>
    /\ response = [raised |-> 0, status_code |-> 0]
    /\ cause = <<>>
    /\ run = 0
    /\ earlier = [test_id \in {} |-> PENDING]
    /\ failing_step = IDLE
    /\ terminal_writes = 0
    /\ calls = <<>>
    /\ llm_response = None
    /\ retry_count = 0
    /\ yields = {}
    /\ replies = <<>>
    /\ suspended = <<>>
    /\ audio_metadata = <<>>
    /\ audio_files = {}
    /\ storage_hist = NoStorageHistory

\* routes.py lines 18-24: TestOrchestrator() builds the orchestrator, or
\* raises ImportError or ValueError (no API key) and leaves None.
Orchestrators == {"TestOrchestrator", None}

\* The process with its orchestrator built.
Init == Loaded /\ test_orchestrator = "TestOrchestrator"

\* The process after import, with or without its orchestrator.
AtImport == Loaded /\ test_orchestrator \in Orchestrators

(* ---------------------------------------------------------------------- *)
(* Shapes of a task step                                                    *)
(* ---------------------------------------------------------------------- *)
\* The positions at which the task is not running: before the event loop
\* starts it, while it awaits the analysis backend, and after it ended.
SuspensionPoints == {"scheduled", "step2_llm_probe", "step6_analyze", "done"}

\* The stages the task has been suspended in once it has moved on to the
\* position `next` with the record r.
Yielding(next, r) ==
    IF next \in SuspensionPoints /\ r.status = RUNNING
    THEN yields \cup {r.current_step}
    ELSE yields

GotoAfter_Twice(names, next, r) ==
    /\ result' = r
    /\ pc' = next
    /\ calls' = calls \o names \o names
    /\ yields' = Yielding(next, r)
    /\ UNCHANGED <<exc, env, hist, llm_response, retry_count>>

\* The task has called the collaborators `names`, which leave the
\* storage mock's mapping as `metadata`, and moves on with the record r.
StoreAfter(names, next, r, metadata) ==
    /\ result' = r
    /\ pc' = next
    /\ calls' = calls \o names
    /\ audio_metadata' = metadata
    /\ audio_files' = audio_files \cup DOMAIN metadata
    /\ storage_hist' = Called(storage_hist, "store",
                              uuid4(DOMAIN audio_metadata), "id",
                              DOMAIN metadata \ DOMAIN audio_metadata, {})
    /\ yields' = Yielding(next, r)
    /\ UNCHANGED <<exc, via, test_results, observed, response, run, earlier,
                   aside, hist, llm_response, retry_count, test_orchestrator>>

\* The task has called the collaborators `names` and moves on with the
\* record r.
GotoAfter(names, next, r) ==
    /\ result' = r
    /\ pc' = next
    /\ calls' = calls \o names
    /\ yields' = Yielding(next, r)
    /\ UNCHANGED <<exc, env, hist, llm_response, retry_count>>

\* The task moves on with the record r.
Goto(next, r) == GotoAfter(<<>>, next, r)

\* The executor of `step` has called the collaborators `names` and fails
\* with e: its except clause re-raises, and control reaches the except
\* clauses of run_full_test.
RaiseAfter(names, step, e, r) ==
    /\ result' = r
    /\ exc' = step_except(step, e)
    /\ pc' = "run_except"
    /\ cause' = e.msg
    /\ failing_step' = step
    /\ calls' = calls \o names
    /\ UNCHANGED <<env, terminal_writes, llm_response, retry_count, yields>>

\* The executor of `step` fails with e in its own code.
Raise(step, e, r) == RaiseAfter(<<>>, step, e, r)

(* ---------------------------------------------------------------------- *)
(* Creation of a run                                                        *)
(* ---------------------------------------------------------------------- *)
start_test_response_Reraises(orchestrator, script) ==
    [raised |-> IF orchestrator = None THEN 503
                ELSE IF IsBlank(script) THEN 400 ELSE 0,
     status_code |-> IF orchestrator = None THEN 503
                     ELSE IF IsBlank(script) THEN 400 ELSE 200]

\* The checks of start_test (routes.py lines 70-89): without an
\* orchestrator it raises HTTPException(503) and for a blank script
\* HTTPException(400), both inside its try block; HTTPException is an
\* Exception, so the except Exception clause catches either and raises
\* HTTPException(500), which is what the client gets.
start_test_response(orchestrator, script) ==
    LET raised == IF orchestrator = None THEN 503
                  ELSE IF IsBlank(script) THEN 400 ELSE 0
    IN [raised |-> raised,
        status_code |-> IF raised # 0 THEN 500 ELSE 200]

\* POST /api/test/start: a request that fails a check is answered with
\* the error; otherwise the handler puts a new record into the registry
\* and schedules run_test.
\* The request is served before the first run or after the task of the
\* latest run has ended; at most `limit` runs are created, with scripts
\* from `scripts`.
start_test(limit, scripts) ==
    /\ pc \in IF via = "api" THEN {"done"} ELSE {"idle"}
    /\ via # "direct"
    /\ run < limit
    /\ \E script \in scripts :
          IF start_test_response(test_orchestrator, script).raised # 0
          THEN /\ response' = start_test_response(test_orchestrator, script)
               /\ UNCHANGED <<result, pc, exc, via, test_results, observed,
                              run, earlier, hist, trace, aside,
                              audio_metadata, shelf, test_orchestrator>>
          ELSE /\ response' = start_test_response(test_orchestrator, script)
               /\ result' = NewTestResult(script)
               /\ run' = run + 1
               /\ test_results' = test_results \cup {run + 1}
               /\ earlier' = [test_id \in test_results |->
                                  IF test_id = run THEN result.status
                                                   ELSE earlier[test_id]]
               /\ via' = "api"
               /\ pc' = "scheduled"
               /\ observed' = <<>>
               /\ cause' = <<>>
               /\ failing_step' = IDLE
               /\ terminal_writes' = 0
               /\ calls' = <<>>
               /\ llm_response' = None
               /\ retry_count' = 0
               /\ yields' = {}
               /\ exc' = NoExc
               /\ UNCHANGED <<aside, audio_metadata, shelf, test_orchestrator>>

\* A caller builds the record itself and awaits run_full_test on it, as
\* tests/test_integration.py does; the script is not screened.
direct_call ==
    /\ pc = "idle"
    /\ \E script \in Scripts :
          /\ result' = NewTestResult(script)
          /\ via' = "direct"
          /\ pc' = "run_entry"
          /\ UNCHANGED <<exc, test_results, observed, response, run,
                         earlier, hist, trace, aside, audio_metadata,
                         shelf, test_orchestrator>>

\* run_test, up to its call of run_full_test.
run_test_begin ==
    /\ pc = "scheduled"
    /\ pc' = "run_entry"
    /\ UNCHANGED <<result, exc, env, hist, trace>>

(* ---------------------------------------------------------------------- *)
(* run_full_test                                                            *)
(* ---------------------------------------------------------------------- *)
RunEntryStatus_Pending == PENDING

\* The status run_full_test writes on entry.
RunEntryStatus == RUNNING

\* Lines 46-54: status, current_step, and the check of the script.
run_full_test_entry ==
    /\ pc = "run_entry"
    /\ LET r == [result EXCEPT !.status = RunEntryStatus,
                               !.current_step = PREPROCESSING]
       IN IF IsEmptyString(result.original_script)
          THEN /\ result' = r
               /\ exc' = Exc("ValueError", "SCRIPT_MISSING")
               /\ pc' = "run_except"
               /\ cause' = <<"SCRIPT_MISSING">>
               /\ failing_step' = PREPROCESSING
               /\ UNCHANGED <<env, terminal_writes, trace>>
          ELSE Goto("step1_begin", r)

(* ----- step 1: preprocessing ----- *)
step1_begin ==
    /\ pc = "step1_begin"
    /\ Goto("step1_validate", update_step_status(result, PREPROCESSING, 0))

step1_validate ==
    /\ pc = "step1_validate"
    /\ IF IsBlank(result.original_script)
       THEN Raise(PREPROCESSING, Exc("ValueError", "SCRIPT_EMPTY"), result)
       ELSE Goto("step1_parse", update_step_status(result, PREPROCESSING, 20))

step1_parse ==
    /\ pc = "step1_parse"
    /\ IF parse_content(result.original_script) = <<>>
       THEN Raise(PREPROCESSING, Exc("ValueError", "NO_DIALOGUE"), result)
       ELSE Goto("step1_write", update_step_status(result, PREPROCESSING, 60))

step1_write ==
    /\ pc = "step1_write"
    /\ LET r == [result EXCEPT
                   !.parsed_dialogue_count =
                       Len(parse_content(result.original_script)),
                   !.info["script_validation_info"] =
                       {"total_lines", "dialogue_lines", "customer_lines",
                        "agent_lines", "script_hash", "validated_at"}]
       IN Goto("step1_complete", update_step_status(r, PREPROCESSING, 100))

step1_complete ==
    /\ pc = "step1_complete"
    /\ Goto("step2_begin", complete_current_step(result))

(* ----- step 2: startup ----- *)
step2_begin ==
    /\ pc = "step2_begin"
    /\ Goto("step2_tts_probe", update_step_status(result, STARTUP, 0))

\* tts_service.test_connection() is synchronous and returns a boolean.
step2_tts_probe ==
    /\ pc = "step2_tts_probe"
    /\ \E tts_status \in BOOLEAN :
          LET r == update_step_status(
                       [result EXCEPT !.apis_verified.tts = Bool(tts_status)],
                       STARTUP, 25)
          IN IF tts_status
             THEN GotoAfter(<<"tts.test_connection">>, "step2_stt_probe", r)
             ELSE RaiseAfter(<<"tts.test_connection">>, STARTUP,
                             Exc("RuntimeError", "TTS_PROBE_FAILED"), r)

step2_stt_probe_IgnoresStatus ==
    /\ pc = "step2_stt_probe"
    /\ \E stt_status \in BOOLEAN :
          LET r == update_step_status(
                       [result EXCEPT !.apis_verified.stt = Bool(stt_status)],
                       STARTUP, 50)
          IN GotoAfter(<<"stt.test_connection">>, "step2_llm_probe", r)

\* stt_service.test_connection() has no await inside: the task does not
\* yield while it runs.
step2_stt_probe ==
    /\ pc = "step2_stt_probe"
    /\ \E stt_status \in BOOLEAN :
          LET r == update_step_status(
                       [result EXCEPT !.apis_verified.stt = Bool(stt_status)],
                       STARTUP, 50)
          IN IF stt_status
             THEN GotoAfter(<<"stt.test_connection">>, "step2_llm_probe", r)
             ELSE RaiseAfter(<<"stt.test_connection">>, STARTUP,
                             Exc("RuntimeError", "STT_PROBE_FAILED"), r)

\* llm_service.test_connection() awaits the backend: the task is suspended
\* at this position until the call returns a boolean or raises.
step2_llm_probe ==
    /\ pc = "step2_llm_probe"
    /\ \/ \E llm_status \in BOOLEAN :
             LET r == update_step_status(
                          [result EXCEPT
                              !.apis_verified.llm = Bool(llm_status)],
                          STARTUP, 75)
             IN IF llm_status
                THEN GotoAfter(<<"llm.test_connection">>, "step2_write", r)
                ELSE RaiseAfter(<<"llm.test_connection">>, STARTUP,
                                Exc("RuntimeError", "LLM_PROBE_FAILED"), r)
       \/ \E kind \in LLMProbeRaises :
             RaiseAfter(<<"llm.test_connection">>, STARTUP,
                        Exc(kind, "LLM_PROBE_ERROR"), result)

step2_write ==
    /\ pc = "step2_write"
    /\ LET r == [result EXCEPT
                   !.info["startup_info"] =
                       {"apis_verified_at", "test_environment",
                        "services_status"}]
       IN Goto("step2_complete", update_step_status(r, STARTUP, 100))

step2_complete ==
    /\ pc = "step2_complete"
    /\ Goto("step3_begin", complete_current_step(result))

(* ----- step 3: TTS conversion ----- *)
step3_begin ==
    /\ pc = "step3_begin"
    /\ Goto("step3_script", update_step_status(result, TTS_CONVERSION, 0))

step3_script ==
    /\ pc = "step3_script"
    /\ Goto("step3_start", update_step_status(result, TTS_CONVERSION, 10))

step3_start ==
    /\ pc = "step3_start"
    /\ Goto("step3_generate", update_step_status(result, TTS_CONVERSION, 20))

\* tts_service.generate_dialogue_audio(test_script): synchronous.
step3_generate ==
    /\ pc = "step3_generate"
    /\ \/ LET r == [result EXCEPT
                      !.tts_audio = "tts.wav",
                      !.info["tts_generation_info"] =
                          {"duration", "file_size", "format", "generated_at",
                           "dialogue_count"}]
          IN GotoAfter(<<"tts.generate_dialogue_audio">>, "step3_complete",
                       update_step_status(r, TTS_CONVERSION, 100))
       \/ \E kind \in TTSRaises :
             RaiseAfter(<<"tts.generate_dialogue_audio">>, TTS_CONVERSION,
                        Exc(kind, "TTS_ERROR"), result)

step3_complete ==
    /\ pc = "step3_complete"
    /\ Goto("step4_begin", complete_current_step(result))

(* ----- step 4: recording ----- *)
step4_begin ==
    /\ pc = "step4_begin"
    /\ Goto("step4_check", update_step_status(result, RECORDING, 0))

step4_check ==
    /\ pc = "step4_check"
    /\ IF result.tts_audio = None
       THEN Raise(RECORDING, Exc("RuntimeError", "TTS_AUDIO_MISSING"), result)
       ELSE Goto("step4_simulate", update_step_status(result, RECORDING, 20))

step4_simulate_NoRecording ==
    /\ pc = "step4_simulate"
    /\ \/ LET r == [result EXCEPT
                      !.mock_response_audio = "recorded.wav",
                      !.info["recording_info"] =
                          {"source_audio_duration", "recorded_audio_duration",
                           "file_size", "recording_quality", "recorded_at"}]
          IN GotoAfter(<<"cs_mock.simulate_call">>, "step4_complete",
                       update_step_status(r, RECORDING, 100))
       \/ \E kind \in WrappedRaises :
             RaiseAfter(<<"cs_mock.simulate_call">>, RECORDING,
                        Exc(kind, "CS_MOCK_ERROR"), result)

\* cs_mock.simulate_call(path): synchronous (time.sleep).
step4_simulate ==
    /\ pc = "step4_simulate"
    /\ \/ LET r == [result EXCEPT
                      !.recorded_audio = "recorded.wav",
                      !.mock_response_audio = "recorded.wav",
                      !.info["recording_info"] =
                          {"source_audio_duration", "recorded_audio_duration",
                           "file_size", "recording_quality", "recorded_at"}]
          IN GotoAfter(<<"cs_mock.simulate_call">>, "step4_complete",
                       update_step_status(r, RECORDING, 100))
       \/ \E kind \in WrappedRaises :
             RaiseAfter(<<"cs_mock.simulate_call">>, RECORDING,
                        Exc(kind, "CS_MOCK_ERROR"), result)

step4_complete ==
    /\ pc = "step4_complete"
    /\ Goto("step5_begin", complete_current_step(result))

(* ----- step 5: storage ----- *)
step5_begin ==
    /\ pc = "step5_begin"
    /\ Goto("step5_check", update_step_status(result, STORAGE, 0))

step5_check ==
    /\ pc = "step5_check"
    /\ IF result.recorded_audio = None
       THEN Raise(STORAGE, Exc("RuntimeError", "RECORDING_MISSING"), result)
       ELSE Goto("step5_metadata", update_step_status(result, STORAGE, 20))

step5_metadata ==
    /\ pc = "step5_metadata"
    /\ Goto("step5_store", update_step_status(result, STORAGE, 50))

step5_store_ReplacesRecording ==
    /\ pc = "step5_store"
    /\ \/ LET r == [result EXCEPT
                      !.storage_file_id = "file-id",
                      !.recorded_audio = "stored.wav",
                      !.info["storage_metadata"] =
                          {"file_id", "stored_at", "storage_path", "metadata"}]
          IN StoreAfter(<<"storage_mock.store_audio">>, "step5_complete",
                        update_step_status(r, STORAGE, 100),
                        store_audio(audio_metadata, run))
       \/ \E kind \in WrappedRaises :
             RaiseAfter(<<"storage_mock.store_audio">>, STORAGE,
                        Exc(kind, "STORAGE_ERROR"), result)

\* storage_mock.store_audio(path, metadata): synchronous.
step5_store ==
    /\ pc = "step5_store"
    /\ \/ LET r == [result EXCEPT
                      !.storage_file_id = "file-id",
                      !.info["storage_metadata"] =
                          {"file_id", "stored_at", "storage_path", "metadata"}]
          IN StoreAfter(<<"storage_mock.store_audio">>, "step5_complete",
                        update_step_status(r, STORAGE, 100),
                        store_audio(audio_metadata, run))
       \/ \E kind \in WrappedRaises :
             RaiseAfter(<<"storage_mock.store_audio">>, STORAGE,
                        Exc(kind, "STORAGE_ERROR"), result)

step5_complete ==
    /\ pc = "step5_complete"
    /\ Goto("step6_begin", complete_current_step(result))

(* ----- step 6: STT and LLM analysis ----- *)
step6_begin ==
    /\ pc = "step6_begin"
    /\ Goto("step6_check", update_step_status(result, LLM_ANALYSIS, 0))

step6_check ==
    /\ pc = "step6_check"
    /\ IF result.recorded_audio = None
       THEN Raise(LLM_ANALYSIS, Exc("RuntimeError", "RECORDING_MISSING"),
                  result)
       ELSE Goto("step6_transcribe",
                 update_step_status([result EXCEPT !.stt_stage = "processing"],
                                    LLM_ANALYSIS, 10))

\* stt_service.transcribe_audio(path) has no await inside: the task does
\* not yield while it runs.
step6_transcribe ==
    /\ pc = "step6_transcribe"
    /\ \/ \E transcribed_text \in Transcripts :
             LET r == [result EXCEPT
                         !.transcribed_text = transcribed_text,
                         !.stt_confidence = 95,
                         !.stt_stage = "completed",
                         !.info["stt_info"] =
                             {"transcribed_at", "confidence_score",
                              "text_length", "processing_duration"}]
             IN GotoAfter(<<"stt.transcribe_audio">>, "step6_llm",
                          update_step_status(r, LLM_ANALYSIS, 50))
       \/ \E kind \in WrappedRaises :
             RaiseAfter(<<"stt.transcribe_audio">>, LLM_ANALYSIS,
                        Exc(kind, "STT_ERROR"), result)

step6_llm ==
    /\ pc = "step6_llm"
    /\ LET r == update_step_status([result EXCEPT !.llm_stage = "processing"],
                                   LLM_ANALYSIS, 60)
       IN IF IsBlankText(result.transcribed_text)
          THEN Goto("step6_empty", r)
          ELSE Goto("step6_analyze", r)

\* LLMService._call_gpt_api: the number of attempts that can follow the
\* first.
MaxRetries == 2

MayRetry_Inclusive(count) == count <= MaxRetries

\* if retry_count < 2: an APIError of an attempt is answered with a new
\* attempt.
MayRetry(count) == count < MaxRetries

\* llm_service.analyze_conversation(...) awaits the backend: the task is
\* suspended at this position until an attempt returns or raises. The
\* backend answers an attempt and the answer is parsed; or the attempt
\* raises APIError, which _call_gpt_api answers with the next attempt
\* while retry_count < 2 and with RuntimeError after that; or something
\* else is raised inside analyze_conversation, which no attempt follows.
\* analyze_conversation re-raises whatever is raised inside it as
\* RuntimeError.
step6_analyze ==
    /\ pc = "step6_analyze"
    /\ \/ \E resp \in Responses :
             LET parsed == parse_analysis_response(resp)
                 r == [result EXCEPT
                         !.llm_analysis = parsed.analysis,
                         !.accuracy_score = parsed.analysis.accuracy_score,
                         !.llm_stage = "completed"]
             IN /\ llm_response' = resp.kind
                /\ retry_count' = 0
                /\ calls' = Append(calls, "llm.analyze_conversation")
                /\ IF parsed.raised = "none"
                   THEN /\ result' = update_step_status(r, LLM_ANALYSIS, 100)
                        /\ pc' = "step6_complete"
                        /\ UNCHANGED <<exc, env, hist, yields>>
                   ELSE /\ result' = result
                        /\ exc' = step_except(
                                      LLM_ANALYSIS,
                                      [kind |-> "RuntimeError",
                                       msg |-> <<"LLM_ERROR", parsed.raised>>])
                        /\ pc' = "run_except"
                        /\ cause' = <<"LLM_ERROR", parsed.raised>>
                        /\ failing_step' = LLM_ANALYSIS
                        /\ UNCHANGED <<env, terminal_writes, yields>>
       \/ IF MayRetry(retry_count)
          THEN /\ retry_count' = retry_count + 1
               /\ llm_response' = "api_error"
               /\ UNCHANGED <<result, pc, exc, env, hist, calls, yields>>
          ELSE /\ retry_count' = 0
               /\ llm_response' = "api_error"
               /\ result' = result
               /\ exc' = step_except(LLM_ANALYSIS,
                                     [kind |-> "RuntimeError",
                                      msg |-> <<"LLM_ERROR", "API_ERROR">>])
               /\ pc' = "run_except"
               /\ cause' = <<"LLM_ERROR", "API_ERROR">>
               /\ failing_step' = LLM_ANALYSIS
               /\ calls' = Append(calls, "llm.analyze_conversation")
               /\ UNCHANGED <<env, terminal_writes, yields>>
       \/ \E kind \in WrappedRaises :
             /\ retry_count' = 0
             /\ llm_response' = "other_error"
             /\ result' = result
             /\ exc' = step_except(LLM_ANALYSIS, Exc(kind, "LLM_ERROR"))
             /\ pc' = "run_except"
             /\ cause' = <<"LLM_ERROR">>
             /\ failing_step' = LLM_ANALYSIS
             /\ calls' = Append(calls, "llm.analyze_conversation")
             /\ UNCHANGED <<env, terminal_writes, yields>>

step6_empty_NoAnalysis ==
    /\ pc = "step6_empty"
    /\ LET r == [result EXCEPT !.llm_stage = "completed"]
       IN Goto("step6_complete", update_step_status(r, LLM_ANALYSIS, 100))

\* The else branch: the transcript is empty and no analysis is requested.
step6_empty ==
    /\ pc = "step6_empty"
    /\ LET r == [result EXCEPT
                   !.llm_analysis = EmptyTranscriptAnalysis,
                   !.accuracy_score = 0,
                   !.llm_stage = "completed"]
       IN Goto("step6_complete", update_step_status(r, LLM_ANALYSIS, 100))

step6_complete ==
    /\ pc = "step6_complete"
    /\ Goto("step7_begin", complete_current_step(result))

(* ----- step 7: completion ----- *)
step7_begin ==
    /\ pc = "step7_begin"
    /\ Goto("step7_report", update_step_status(result, COMPLETION, 0))

step7_report ==
    /\ pc = "step7_report"
    /\ LET r == [result EXCEPT
                   !.final_report =
                       [populated |-> TRUE,
                        steps_completed |-> Len(result.completed_steps),
                        final_accuracy |-> result.accuracy_score,
                        status |-> "completed"]]
       IN Goto("step7_cleanup", update_step_status(r, COMPLETION, 40))

step7_cleanup ==
    /\ pc = "step7_cleanup"
    /\ LET r == [result EXCEPT
                   !.info["cleanup_info"] =
                       {"cleaned_files", "cleanup_at", "retention_policy"}]
       IN Goto("step7_save", update_step_status(r, COMPLETION, 70))

step7_save ==
    /\ pc = "step7_save"
    /\ Goto("step7_complete", update_step_status(result, COMPLETION, 100))

step7_complete ==
    /\ pc = "step7_complete"
    /\ Goto("run_finish", complete_current_step(result))

(* ----- the end of run_full_test ----- *)
\* Line 66: the run completed.
run_full_test_finish ==
    /\ pc = "run_finish"
    /\ result' = [result EXCEPT !.status = COMPLETED]
    /\ terminal_writes' = terminal_writes + 1
    /\ pc' = "run_finish_fields"
    /\ UNCHANGED <<exc, env, cause, failing_step, trace>>

\* Lines 67-68: current_step and overall_progress.
run_full_test_finish_fields ==
    /\ pc = "run_finish_fields"
    /\ Goto("run_return",
            [result EXCEPT !.current_step = COMPLETION,
                           !.overall_progress = 100 * TOTAL_STEPS])

\* Lines 76-87: the except clause that names the class of the exception
\* writes the status; an exception no clause names leaves run_full_test.
run_full_test_except ==
    /\ pc = "run_except"
    /\ IF run_full_test_handler(exc.kind) # "uncaught"
       THEN /\ result' = [result EXCEPT !.status = FAILED]
            /\ terminal_writes' = terminal_writes + 1
            /\ pc' = "run_except_message"
       ELSE /\ pc' = "run_return"
            /\ UNCHANGED <<result, terminal_writes>>
    /\ UNCHANGED <<exc, env, cause, failing_step, trace>>

\* The second statement of the except clause: error_message.
run_full_test_except_message ==
    /\ pc = "run_except_message"
    /\ result' = [result EXCEPT
                     !.error_message =
                         <<run_full_test_handler(exc.kind)>> \o exc.msg]
    /\ exc' = NoExc
    /\ pc' = "run_return"
    /\ UNCHANGED <<env, hist, trace>>

\* run_full_test has returned to run_test: lines 362-370 of routes.py.
run_test_end ==
    /\ pc = "run_return"
    /\ via = "api"
    /\ IF exc # NoExc /\ run_test_handler(exc.kind)
       THEN /\ result' = [result EXCEPT !.status = FAILED,
                                        !.error_message = exc.msg]
            /\ terminal_writes' = terminal_writes + 1
            /\ exc' = NoExc
       ELSE UNCHANGED <<result, terminal_writes, exc>>
    /\ pc' = "done"
    /\ UNCHANGED <<env, cause, failing_step, trace>>

\* run_full_test has returned to the caller that awaited it directly.
direct_return ==
    /\ pc = "run_return"
    /\ via = "direct"
    /\ pc' = "done"
    /\ UNCHANGED <<result, exc, env, hist, trace>>

(* ---------------------------------------------------------------------- *)
(* Status queries                                                           *)
(* ---------------------------------------------------------------------- *)
\* GET /api/test/{id}/status, served by the event loop while the task is
\* suspended.
get_test_status ==
    /\ run \in test_results
    /\ pc \in SuspensionPoints
    /\ Len(observed) < MaxPolls
    /\ observed' = Append(observed, get_status_response(result))
    /\ UNCHANGED <<result, pc, exc, via, test_results, response, run,
                   earlier, hist, trace, aside, audio_metadata,
                   shelf, test_orchestrator>>

(* ---------------------------------------------------------------------- *)
(* Requests on the registry                                                 *)
(* ---------------------------------------------------------------------- *)
\* The ids start_test can have given out.
RunIds == 1..MaxRuns

\* test_results[test_id].status: the record of the latest run is `result`,
\* the runs before it have ended.
StatusOf(test_id) ==
    IF test_id = run THEN result.status ELSE earlier[test_id]

\* del test_results[test_id] for every id in tests_to_delete.
Remove(tests_to_delete) ==
    /\ test_results' = test_results \ tests_to_delete
    /\ earlier' = [test_id \in DOMAIN earlier \ tests_to_delete |->
                      earlier[test_id]]
    /\ UNCHANGED <<result, pc, exc, via, observed, response, run, hist,
                   trace, aside, audio_metadata, shelf, test_orchestrator>>

\* The event loop serves a request of the API while no task is running:
\* before the first run, or while the task of the latest run is suspended
\* or has ended.
Serving == via # "direct" /\ pc \in SuspensionPoints \cup {"idle"}

delete_test_AnyStatus(test_id) ==
    /\ Serving
    /\ IF test_id \notin test_results
       THEN UNCHANGED vars
       ELSE Remove({test_id})

\* DELETE /api/test/{test_id}: 404 for an id that is not in the registry,
\* 400 for a run that is running, otherwise the entry is removed.
delete_test(test_id) ==
    /\ Serving
    /\ IF test_id \notin test_results
       THEN UNCHANGED vars
       ELSE IF StatusOf(test_id) = RUNNING
            THEN UNCHANGED vars
            ELSE Remove({test_id})

\* POST /api/tests/cleanup?days=d. Records are created one after the
\* other, so the entries with timestamp < now - d are those of the first
\* `older` runs, for some number `older` that d and the clock determine;
\* d is any integer, so every such number can occur.
cleanup_old_tests(older) ==
    /\ Serving
    /\ LET tests_to_delete ==
               {test_id \in test_results :
                    StatusOf(test_id) # RUNNING /\ test_id <= older}
       IN Remove(tests_to_delete)

delete_request == \E test_id \in RunIds : delete_test(test_id)

cleanup_request == \E older \in 0..run : cleanup_old_tests(older)

(* ---------------------------------------------------------------------- *)
(* Queries                                                                  *)
(* ---------------------------------------------------------------------- *)
\* list_tests: the reply to a list query, by test id; of a record other
\* than the latest the model keeps the status.
list_tests ==
    [tests |-> [test_id \in test_results |->
                   IF test_id = run
                   THEN [status |-> result.status,
                         current_step |-> result.current_step,
                         overall_progress |-> result.overall_progress,
                         accuracy_score |-> result.accuracy_score,
                         completed_steps_count |-> Len(result.completed_steps)]
                   ELSE [status |-> earlier[test_id]]],
     total |-> Cardinality(test_results)]

\* The GET routes on a run and on the registry.
Queries == {"status", "result", "report", "steps", "list"}

\* The reply of the route `query`, served `elapsed` seconds after the
\* record of the latest run was created.
Reply(query, elapsed) ==
    CASE query = "status" -> get_status_response(result)
      [] query = "result" -> to_dict(result)
      [] query = "report" -> get_test_report(result, elapsed)
      [] query = "steps" -> get_test_steps(result)
      [] OTHER -> list_tests

\* The event loop serves a query on the latest run while its task is
\* suspended; the clock does not run backwards from one query to the
\* next. With the reply the model keeps the record and the registry as
\* they were when it was served.
serve_query(query) ==
    /\ pc \in SuspensionPoints
    /\ run \in test_results
    /\ Len(replies) < MaxPolls
    /\ \E elapsed \in 1..MaxElapsed :
          /\ \A i \in 1..Len(replies) : replies[i].elapsed <= elapsed
          /\ replies' = Append(replies,
                               [query |-> query, elapsed |-> elapsed,
                                reply |-> Reply(query, elapsed),
                                record |-> result,
                                registry |-> test_results])
    /\ UNCHANGED <<result, pc, exc, via, test_results, observed, response,
                   run, earlier, hist, trace, suspended, audio_metadata,
                   shelf, test_orchestrator>>

query_request == \E query \in Queries : serve_query(query)

(* ---------------------------------------------------------------------- *)
(* Two runs in flight                                                       *)
(* ---------------------------------------------------------------------- *)
\* The task that holds the variables of the model, with its record.
Running ==
    [run |-> run, result |-> result, pc |-> pc, exc |-> exc,
     cause |-> cause, failing_step |-> failing_step,
     terminal_writes |-> terminal_writes, calls |-> calls,
     llm_response |-> llm_response, retry_count |-> retry_count,
     yields |-> yields]

\* POST /api/test/start served while the task of the latest run is
\* suspended: the new record enters the registry and its run_test is
\* scheduled behind the task in flight.
start_test_concurrent(scripts) ==
    /\ via = "api"
    /\ pc \in SuspensionPoints \ {"done"}
    /\ suspended = <<>>
    /\ run < MaxRuns
    /\ \E script \in scripts :
          IF start_test_response(test_orchestrator, script).raised # 0
          THEN /\ response' = start_test_response(test_orchestrator, script)
               /\ UNCHANGED <<result, pc, exc, via, test_results, observed,
                              run, earlier, hist, trace, aside,
                              audio_metadata, shelf, test_orchestrator>>
          ELSE /\ response' = start_test_response(test_orchestrator, script)
               /\ test_results' = test_results \cup {run + 1}
               /\ earlier' = (run + 1 :> PENDING)
               /\ suspended' =
                      <<[run |-> run + 1, result |-> NewTestResult(script),
                         pc |-> "scheduled", exc |-> NoExc, cause |-> <<>>,
                         failing_step |-> IDLE, terminal_writes |-> 0,
                         calls |-> <<>>, llm_response |-> None,
                         retry_count |-> 0, yields |-> {}]>>
               /\ UNCHANGED <<result, pc, exc, via, observed, run, hist,
                              trace, replies, audio_metadata,
                              shelf, test_orchestrator>>

\* The event loop: the task in flight is suspended in an await (or has
\* not started, or has ended) and the other task, which has not ended,
\* runs on from where it was.
switch ==
    /\ suspended # <<>>
    /\ pc \in SuspensionPoints
    /\ suspended[1].pc # "done"
    /\ run' = suspended[1].run
    /\ result' = suspended[1].result
    /\ pc' = suspended[1].pc
    /\ exc' = suspended[1].exc
    /\ cause' = suspended[1].cause
    /\ failing_step' = suspended[1].failing_step
    /\ terminal_writes' = suspended[1].terminal_writes
    /\ calls' = suspended[1].calls
    /\ llm_response' = suspended[1].llm_response
    /\ retry_count' = suspended[1].retry_count
    /\ yields' = suspended[1].yields
    /\ suspended' = <<Running>>
    /\ earlier' = (run :> result.status)
    /\ UNCHANGED <<via, test_results, observed, response, replies,
                   audio_metadata, shelf, test_orchestrator>>

(* ---------------------------------------------------------------------- *)
(* The audio store called on its own                                        *)
(* ---------------------------------------------------------------------- *)
\* The file ids a caller can name: those the store can have given out and
\* one it has not.
FileIds == 1..(MaxFiles + 1)

\* No run has been created: the store is called as tests/test_basic.py
\* calls it.
StoreOnly == pc = "idle" /\ via = "none"

\* What leaves the store's calls alone.
pipeline == <<result, pc, exc, via, test_results, observed, response, run,
              earlier, hist, trace, aside, test_orchestrator>>

\* storage_mock.store_audio(path, metadata): a source path that does not
\* exist raises before anything is written; a file pydub cannot read is
\* copied to AUDIO_PATH under the new id and get_audio_duration raises
\* before the entry is written; otherwise the entry is written and the id
\* returned.
store_audio_call ==
    /\ StoreOnly
    /\ Cardinality(DOMAIN audio_metadata \cup audio_files) < MaxFiles
    /\ LET file_id == uuid4(DOMAIN audio_metadata)
       IN \/ /\ audio_metadata' = store_audio(audio_metadata, run)
             /\ audio_files' = audio_files \cup {file_id}
             /\ storage_hist' = Called(storage_hist, "store", file_id, "id",
                                       {file_id}, {})
          \/ /\ audio_files' = audio_files \cup {file_id}
             /\ storage_hist' = Called(storage_hist, "store", file_id,
                                       "RuntimeError", {}, {})
             /\ UNCHANGED audio_metadata
          \/ /\ storage_hist' = Called(storage_hist, "store", file_id,
                                       "RuntimeError", {}, {})
             /\ UNCHANGED <<audio_metadata, audio_files>>
    /\ UNCHANGED pipeline

retrieve_audio_call(file_id) ==
    /\ StoreOnly
    /\ LET got == retrieve_audio(audio_metadata, audio_files, file_id)
       IN /\ audio_metadata' = got.metadata
          /\ storage_hist' = Called(storage_hist, "retrieve", file_id,
                                    got.value, {}, {})
    /\ UNCHANGED <<audio_files, pipeline>>

delete_audio_call(file_id) ==
    /\ StoreOnly
    /\ \E unlink_fails \in BOOLEAN :
          LET got == delete_audio(audio_metadata, audio_files, file_id,
                                  unlink_fails)
          IN /\ audio_metadata' = got.metadata
             /\ audio_files' = got.files
             /\ storage_hist' =
                    Called(storage_hist, "delete", file_id, got.value, {},
                           IF got.value = Bool(TRUE) THEN {file_id} ELSE {})
    /\ UNCHANGED pipeline

get_storage_stats_call ==
    /\ StoreOnly
    /\ storage_hist' = Called(storage_hist, "stats", 0,
                              get_storage_stats(audio_metadata), {}, {})
    /\ UNCHANGED <<audio_metadata, audio_files, pipeline>>

\* Somebody other than the store removes a file from AUDIO_PATH.
remove_file(file_id) ==
    /\ StoreOnly
    /\ file_id \in audio_files
    /\ audio_files' = audio_files \ {file_id}
    /\ storage_hist' =
           [Called(storage_hist, "remove", file_id, None, {}, {})
               EXCEPT !.in_place = @ /\ file_id \notin DOMAIN audio_metadata]
    /\ UNCHANGED <<audio_metadata, pipeline>>

retrieve_request == \E file_id \in FileIds : retrieve_audio_call(file_id)

delete_audio_request == \E file_id \in FileIds : delete_audio_call(file_id)

remove_file_request == \E file_id \in FileIds : remove_file(file_id)

(* ---------------------------------------------------------------------- *)
(* Specification                                                            *)
(* ---------------------------------------------------------------------- *)
TaskStep ==
    \/ run_test_begin \/ run_full_test_entry
    \/ step1_begin \/ step1_validate \/ step1_parse \/ step1_write
    \/ step1_complete
    \/ step2_begin \/ step2_tts_probe \/ step2_stt_probe \/ step2_llm_probe
    \/ step2_write \/ step2_complete
    \/ step3_begin \/ step3_script \/ step3_start \/ step3_generate
    \/ step3_complete
    \/ step4_begin \/ step4_check \/ step4_simulate \/ step4_complete
    \/ step5_begin \/ step5_check \/ step5_metadata \/ step5_store
    \/ step5_complete
    \/ step6_begin \/ step6_check \/ step6_transcribe \/ step6_llm
    \/ step6_analyze \/ step6_empty \/ step6_complete
    \/ step7_begin \/ step7_report \/ step7_cleanup \/ step7_save
    \/ step7_complete
    \/ run_full_test_finish \/ run_full_test_finish_fields
    \/ run_full_test_except
    \/ run_full_test_except_message \/ run_test_end

\* One run, created by start_test or by a direct caller, with the
\* requests on it and its task.
Next ==
    \/ start_test(1, Scripts) \/ direct_call \/ direct_return
    \/ get_test_status \/ delete_request \/ cleanup_request
    \/ TaskStep

Spec == Init /\ [][Next]_vars

\* The scripts of one line.
ShortScripts == {script \in Scripts : Len(script) = 1}

\* Runs created by start_test one after the other, each with the requests
\* on the registry and its task.
RegistryNext ==
    \/ start_test(MaxRuns, ShortScripts)
    \/ get_test_status \/ delete_request \/ cleanup_request
    \/ TaskStep

RegistrySpec == Init /\ [][RegistryNext]_vars

\* One run created by start_test, with the queries on it and its task.
QueryNext ==
    \/ start_test(1, ShortScripts)
    \/ query_request
    \/ TaskStep

QuerySpec == Init /\ [][QueryNext]_vars

\* Two runs created by start_test, the second while the task of the first
\* is in flight, and their tasks interleaved by the event loop.
ConcurrentNext ==
    \/ start_test(1, ShortScripts)
    \/ start_test_concurrent(ShortScripts)
    \/ switch
    \/ TaskStep

ConcurrentSpec == Init /\ [][ConcurrentNext]_vars

\* The audio store under the calls of its clients, with the files in
\* AUDIO_PATH left in place or removed behind its back.
StorageNext ==
    \/ store_audio_call \/ retrieve_request \/ delete_audio_request
    \/ get_storage_stats_call \/ remove_file_request

StorageSpec == Init /\ [][StorageNext]_vars

\* Runs created by start_test one after the other in a process that has
\* or has not built its orchestrator.
StartSpec == AtImport /\ [][RegistryNext]_vars

\* The event loop runs a task that is ready, and every collaborator call
\* returns or raises.
FairSpec == Spec /\ WF_vars(TaskStep)

(* ---------------------------------------------------------------------- *)
(* Vocabulary of the properties                                             *)
(* ---------------------------------------------------------------------- *)
Terminal == {COMPLETED, FAILED}

\* run_full_test has returned (to run_test or to its direct caller).
Returned == pc \in {"run_return", "done"}

\* The step does not begin a new run: `result` is the same record before
\* and after it.
SameRecord == run' = run /\ via' = via

\* No executor, probe or validation of the run has failed.
NoFailure == failing_step = IDLE

\* sub occurs in s as a block of consecutive parts.
Contains(s, sub) ==
    \E i \in 0..(Len(s) - Len(sub)) :
        \A j \in 1..Len(sub) : s[i + j] = sub[j]

\* n / d rounded to the nearest integer (d odd: no ties).
RoundDiv(n, d) == (2 * n + d) \div (2 * d)

\* The fields each step owns still hold the defaults of a new record.
StepFieldsInitial(r, step) ==
    LET d == NewTestResult(r.original_script)
    IN CASE step = PREPROCESSING ->
              /\ r.parsed_dialogue_count = d.parsed_dialogue_count
              /\ r.info["script_validation_info"] = {}
         [] step = STARTUP ->
              /\ r.apis_verified = d.apis_verified
              /\ r.info["startup_info"] = {}
         [] step = TTS_CONVERSION ->
              /\ r.tts_audio = d.tts_audio
              /\ r.info["tts_generation_info"] = {}
         [] step = RECORDING ->
              /\ r.recorded_audio = d.recorded_audio
              /\ r.mock_response_audio = d.mock_response_audio
              /\ r.info["recording_info"] = {}
         [] step = STORAGE ->
              /\ r.storage_file_id = d.storage_file_id
              /\ r.info["storage_metadata"] = {}
         [] step = LLM_ANALYSIS ->
              /\ r.stt_stage = d.stt_stage
              /\ r.transcribed_text = d.transcribed_text
              /\ r.stt_confidence = d.stt_confidence
              /\ r.info["stt_info"] = {}
              /\ r.llm_stage = d.llm_stage
              /\ r.llm_analysis = d.llm_analysis
              /\ r.accuracy_score = d.accuracy_score
         [] step = COMPLETION ->
              /\ r.final_report = d.final_report
              /\ r.info["cleanup_info"] = {}

\* The fields a step assigns only after its last collaborator call (or,
\* for preprocessing, after its validations) still hold the defaults.
StepResultInitial(r, step) ==
    LET d == NewTestResult(r.original_script)
    IN CASE step = STARTUP -> r.info["startup_info"] = {}
         [] step = LLM_ANALYSIS ->
              /\ r.llm_analysis = d.llm_analysis
              /\ r.accuracy_score = d.accuracy_score
         [] OTHER -> StepFieldsInitial(r, step)

(* ---------------------------------------------------------------------- *)
(* Properties                                                               *)
(* ---------------------------------------------------------------------- *)

\* C1: when run_full_test has returned from a run in which the script has
\* at least one dialogue line and nothing failed, status is completed,
\* completed_steps is the seven steps in order, overall_progress is 100 and
\* error_message is None.
C1_SuccessfulRun ==
    (Returned /\ NoFailure /\ parse_content(result.original_script) # <<>>)
    => /\ result.status = COMPLETED
       /\ result.completed_steps = StepPrefix(7)
       /\ result.overall_progress = 100 * TOTAL_STEPS
       /\ result.error_message = NoMessage

C1_Witness ==
    /\ pc = "done"
    /\ NoFailure
    /\ result.status = COMPLETED
    /\ Len(result.completed_steps) = 7

\* C2: whatever an executor or collaborator raised, run_full_test returns
\* with no exception in flight and with status completed or failed.
C2_ErrorBoundary ==
    Returned => (exc = NoExc /\ result.status \in Terminal)

C2_Witness ==
    /\ pc = "run_return"
    /\ failing_step = TTS_CONVERSION
    /\ cause = <<"TTS_ERROR">>
    /\ result.status = FAILED

\* C3: once the task of a run has started, the record eventually holds
\* completed or failed.
C3_EventuallyTerminal ==
    (pc = "run_entry" \/ result.status = RUNNING)
        ~> (result.status \in Terminal)

C3_Witness ==
    /\ via = "api"
    /\ pc = "done"
    /\ result.status = FAILED
    /\ failing_step = LLM_ANALYSIS

\* C4: every mutation of the record made while status is running leaves
\* overall_progress greater than or equal to what it was.
C4_ProgressNeverDecreases ==
    [][(result.status = RUNNING /\ result'.status = RUNNING)
        => result'.overall_progress >= result.overall_progress]_vars

\* C5: the overall_progress values returned to the status queries of a run
\* are non-decreasing in the order the queries were served.
C5_ObservedProgressMonotone ==
    \A i \in 1..Len(observed) : \A j \in i..Len(observed) :
        observed[i].overall_progress <= observed[j].overall_progress

C5_Witness ==
    /\ Len(observed) = 2
    /\ observed[1].status = RUNNING
    /\ observed[1].current_step = STARTUP
    /\ observed[2].current_step = LLM_ANALYSIS
    /\ observed[1].overall_progress < observed[2].overall_progress

\* The values 14, 28, 43, 57, 71, 86, 100 of steps 1..7.
C6_Table == <<14, 28, 43, 57, 71, 86, 100>>

\* C6: right after complete_current_step appended step k to
\* completed_steps, overall_progress is the value of step k in the list
\* 14, 28, 43, 57, 71, 86, 100.
C6_ProgressAtCompletion ==
    [][Len(result'.completed_steps) = Len(result.completed_steps) + 1
        => LET k == Len(result'.completed_steps)
           IN /\ result'.completed_steps[k] = TestStep[k + 1]
              /\ result'.overall_progress = C6_Table[k] * TOTAL_STEPS]_vars

C6_Witness ==
    /\ pc = "step7_begin"
    /\ Len(result.completed_steps) = 6
    /\ result.overall_progress = 86 * TOTAL_STEPS

\* C7: whenever current_step is a pipeline step that is not in
\* completed_steps, calculate_overall_progress returns the table value of
\* the step before current_step plus step_progress / 7, capped at 100.
C7_ProgressFromPrecedingStep ==
    (result.current_step # IDLE
     /\ result.current_step \notin Range(result.completed_steps))
    => calculate_overall_progress(result) =
           Min(100 * TOTAL_STEPS,
               STEP_PROGRESS_MAPPING[TestStep[StepIndex(result.current_step)]]
                   * TOTAL_STEPS + result.step_progress)

\* C8: the table entry of step k is 100 * k / 7 rounded to the nearest
\* integer, for the step k the run is in.
C8_TableIsRounded ==
    result.current_step # IDLE
    => STEP_PROGRESS_MAPPING[result.current_step] =
           RoundDiv(100 * StepIndex(result.current_step), TOTAL_STEPS)

\* C8 as amended: the entry of step k is 100 * k / 7 rounded to the nearest
\* integer except for step 2, whose entry 28 is 200 / 7 rounded down.
C8_TableIsRoundedExceptStartup ==
    result.current_step # IDLE
    => STEP_PROGRESS_MAPPING[result.current_step] =
           IF result.current_step = STARTUP
           THEN (100 * StepIndex(STARTUP)) \div TOTAL_STEPS
           ELSE RoundDiv(100 * StepIndex(result.current_step), TOTAL_STEPS)

C8_Witness ==
    /\ result.current_step = STARTUP
    /\ result.step_progress = 50
    /\ STEP_PROGRESS_MAPPING[result.current_step] = 28

\* The part of C9 that does not depend on which fields a failing step has
\* written: the message, the pinned step and the completed prefix.
C9_FailurePinned ==
    /\ result.error_message # NoMessage
    /\ Contains(result.error_message, cause)
    /\ cause # <<>>
    /\ result.current_step = failing_step
    /\ result.completed_steps = StepPrefix(StepIndex(failing_step) - 1)

\* C9: a run that ended failed because step k failed has a non-empty
\* error_message containing the message of the cause, current_step = k,
\* completed_steps = steps 1..k-1, and the fields owned by step k and by
\* the later steps still hold their initial values.
C9_FailedRun ==
    (Returned /\ result.status = FAILED)
    => /\ C9_FailurePinned
       /\ \A i \in StepIndex(failing_step)..7 :
              StepFieldsInitial(result, TestStep[i + 1])

\* C9 as amended: the fields owned by the later steps hold their initial
\* values, and so do the fields step k assigns only after its last
\* collaborator call; what step k wrote before the failure stays written.
C9_FailedRunAmended ==
    (Returned /\ result.status = FAILED)
    => /\ C9_FailurePinned
       /\ StepResultInitial(result, failing_step)
       /\ \A i \in (StepIndex(failing_step) + 1)..7 :
              StepFieldsInitial(result, TestStep[i + 1])

C9_Witness ==
    /\ pc = "done"
    /\ result.status = FAILED
    /\ failing_step = LLM_ANALYSIS
    /\ cause = <<"LLM_ERROR">>
    /\ result.transcribed_text = "text"
    /\ result.accuracy_score = 0

\* C10: the status of a record starts pending and only moves pending ->
\* running -> completed or failed; a terminal value is written at most
\* once and is never replaced, by run_full_test or by run_test.
C10_StatusTransitions ==
    /\ result.status = PENDING
    /\ [][/\ ~SameRecord => result'.status = PENDING
          /\ SameRecord =>
                /\ result.status = PENDING
                      => result'.status \in {PENDING, RUNNING}
                /\ result.status = RUNNING
                      => result'.status \in {RUNNING, COMPLETED, FAILED}
                /\ result.status \in Terminal
                      => result'.status = result.status
          /\ terminal_writes' <= 1]_vars

C10_Witness ==
    /\ via = "api"
    /\ pc = "done"
    /\ result.status = COMPLETED
    /\ terminal_writes = 1

\* C11: once the status of a record is completed or failed, no step of the
\* run's task changes any field of the record.
C11_TerminalRecordFrozen ==
    [][(SameRecord /\ result.status \in Terminal) => result' = result]_vars

\* C12: current_step of a record starts at idle and every change of it goes
\* to the next step of the order idle, preprocessing, startup,
\* tts_conversion, recording, storage, llm_analysis, completion; it leaves a
\* pipeline step only when that step is in completed_steps.
C12_StepOrder ==
    /\ result.current_step = IDLE
    /\ [][/\ ~SameRecord => result'.current_step = IDLE
          /\ (SameRecord /\ result'.current_step # result.current_step) =>
                /\ StepIndex(result'.current_step) =
                       StepIndex(result.current_step) + 1
                /\ result.current_step # IDLE
                      => result.current_step \in Range(result.completed_steps)
         ]_vars

C12_Witness ==
    /\ pc = "step7_report"
    /\ result.status = RUNNING
    /\ result.current_step = COMPLETION
    /\ result.completed_steps = StepPrefix(6)

\* C13: completed_steps is always the first n steps of the pipeline in
\* order, without repetition; a step of the task leaves it alone or appends
\* the current step to it, and appends only while nothing has failed and
\* after the last write of the step's executor: from then on the record
\* changes only when the next executor or the end of run_full_test takes
\* over.
C13_CompletedPrefix ==
    /\ [](result.completed_steps = StepPrefix(Len(result.completed_steps)))
    /\ [][SameRecord =>
            /\ \/ result'.completed_steps = result.completed_steps
               \/ /\ result'.completed_steps =
                        Append(result.completed_steps, result.current_step)
                  /\ result.current_step \notin Range(result.completed_steps)
                  /\ result.status = RUNNING
                  /\ NoFailure /\ exc = NoExc
            /\ (result.current_step \in Range(result.completed_steps)
                /\ result' # result)
                  => \/ result'.current_step # result.current_step
                     \/ result'.status # result.status
         ]_vars

C13_Witness ==
    /\ pc = "run_finish"
    /\ result.status = RUNNING
    /\ result.completed_steps = StepPrefix(7)

\* C14: a second call of complete_current_step right after the first leaves
\* completed_steps, step_progress and overall_progress as the first call
\* left them, and a call while current_step is idle changes nothing, for
\* every record a run goes through.
C14_CompleteIdempotent ==
    LET once == complete_current_step(result)
        twice == complete_current_step(once)
    IN /\ twice.completed_steps = once.completed_steps
       /\ twice.step_progress = once.step_progress
       /\ twice.overall_progress = once.overall_progress
       /\ twice = once
       /\ result.current_step = IDLE => once = result

C14_Witness ==
    /\ pc = "step3_generate"
    /\ result.current_step = TTS_CONVERSION
    /\ result.step_progress = 20
    /\ complete_current_step(result).completed_steps = StepPrefix(3)
    /\ complete_current_step(result).step_progress = 100
    /\ complete_current_step(result) # result

\* The artifacts of a run; the transcript goes with its confidence and the
\* analysis with its score.
Artifacts ==
    {"parsed_dialogue_count", "tts_audio", "recorded_audio",
     "storage_file_id", "transcribed_text", "llm_analysis", "final_report"}

Artifact(r, a) ==
    CASE a = "parsed_dialogue_count" -> <<r.parsed_dialogue_count>>
      [] a = "tts_audio" -> <<r.tts_audio>>
      [] a = "recorded_audio" -> <<r.recorded_audio>>
      [] a = "storage_file_id" -> <<r.storage_file_id>>
      [] a = "transcribed_text" -> <<r.transcribed_text, r.stt_confidence>>
      [] a = "llm_analysis" -> <<r.llm_analysis, r.accuracy_score>>
      [] a = "final_report" -> <<r.final_report>>

\* The step whose executor produces the artifact.
Producer(a) ==
    CASE a = "parsed_dialogue_count" -> PREPROCESSING
      [] a = "tts_audio" -> TTS_CONVERSION
      [] a = "recorded_audio" -> RECORDING
      [] a = "storage_file_id" -> STORAGE
      [] a = "transcribed_text" -> LLM_ANALYSIS
      [] a = "llm_analysis" -> LLM_ANALYSIS
      [] a = "final_report" -> COMPLETION

\* C15: a step of the task changes an artifact of the record only from its
\* initial value and only while current_step is the step that produces it;
\* an artifact that has been assigned is never changed again.
C15_ArtifactsWriteOnce ==
    [][SameRecord =>
          \A a \in Artifacts :
              Artifact(result', a) # Artifact(result, a)
              => /\ Artifact(result, a)
                       = Artifact(NewTestResult(result.original_script), a)
                 /\ result.current_step = Producer(a)
                 /\ result'.current_step = Producer(a)
                 /\ result.status = RUNNING
      ]_vars

C15_Witness ==
    /\ pc = "step7_cleanup"
    /\ \A a \in Artifacts :
          Artifact(result, a)
              # Artifact(NewTestResult(result.original_script), a)
    /\ result.final_report.populated
    /\ result.transcribed_text = "text"

\* C16: when run_full_test has returned from a run whose original_script is
\* empty or white space only, status is failed, current_step is
\* preprocessing, completed_steps is empty, no collaborator has been called
\* and every artifact holds its initial value.
C16_BlankScriptRun ==
    (Returned /\ IsBlank(result.original_script))
    => /\ result.status = FAILED
       /\ result.current_step = PREPROCESSING
       /\ result.completed_steps = <<>>
       /\ calls = <<>>
       /\ result.parsed_dialogue_count = 0
       /\ result.tts_audio = None
       /\ result.recorded_audio = None
       /\ result.storage_file_id = None
       /\ result.transcribed_text = ""
       /\ ~result.final_report.populated
       /\ \A a \in Artifacts :
             Artifact(result, a)
                 = Artifact(NewTestResult(result.original_script), a)

C16_Witness ==
    /\ pc = "done"
    /\ result.original_script = <<"SPACE">>
    /\ result.status = FAILED
    /\ cause = <<"SCRIPT_EMPTY">>
    /\ failing_step = PREPROCESSING
    /\ calls = <<>>

\* C17: once the transcription has returned an empty or white-space-only
\* string, analyze_conversation is never called and nothing fails; when
\* step 6 has completed, llm_analysis is the fixed record with
\* accuracy_score 0 and the fixed reasoning and accuracy_score is 0; and
\* the run ends completed with step 6 among its completed steps.
C17_EmptyTranscript ==
    (result.stt_stage = "completed" /\ result.transcribed_text \in {"", " "})
    => /\ "llm.analyze_conversation" \notin Range(calls)
       /\ llm_response = None
       /\ NoFailure
       /\ LLM_ANALYSIS \in Range(result.completed_steps)
             => /\ result.llm_analysis =
                      [populated |-> TRUE, accuracy_score |-> 0,
                       reasoning |-> "STT_EMPTY"]
                /\ result.accuracy_score = 0
       /\ Returned => /\ LLM_ANALYSIS \in Range(result.completed_steps)
                      /\ result.status = COMPLETED

C17_Witness ==
    /\ pc = "done"
    /\ result.transcribed_text = " "
    /\ result.status = COMPLETED
    /\ result.llm_analysis.reasoning = "STT_EMPTY"
    /\ calls[Len(calls)] = "stt.transcribe_audio"

\* C18: when run_full_test has returned from a run in which the backend
\* answered the analysis request with text that is not JSON, with JSON that
\* is not an object or with an accuracy_score that is not a number,
\* llm_analysis is the zero-score fallback record and the run is
\* completed.
C18_MalformedResponseFallback ==
    (Returned /\ llm_response \in {"unparsable", "non_object", "bad_score"})
    => /\ result.llm_analysis = FallbackAnalysis
       /\ result.accuracy_score = 0
       /\ result.status = COMPLETED

\* C19: a step that serves a delete request for a run in the registry
\* leaves the registry as it is when the status of the run is running, and
\* removes that id and nothing else when the status is completed or
\* failed; in both cases the records of the other runs and the task are
\* left alone. The requests are served at every point where the task of
\* the run is suspended.
C19_Delete ==
    [][\A test_id \in RunIds :
          (delete_test(test_id) /\ test_id \in test_results)
          => /\ StatusOf(test_id) = RUNNING
                   => test_results' = test_results
             /\ StatusOf(test_id) \in Terminal
                   => /\ test_results' = test_results \ {test_id}
                      /\ test_id \notin test_results'
             /\ \A other \in test_results \ {test_id, run} :
                    earlier'[other] = earlier[other]
             /\ UNCHANGED <<result, pc, exc, run>>
      ]_vars

C19_Witness ==
    /\ run = MaxRuns
    /\ test_results = {run}
    /\ pc = "step6_analyze"
    /\ result.status = RUNNING

\* C20: a step that serves a cleanup request removes from the registry
\* only runs that are completed or failed and older than the cutoff, and
\* leaves the records alone.
C20_Cleanup ==
    [][\A older \in 0..MaxRuns :
          cleanup_old_tests(older)
          => /\ \A test_id \in test_results \ test_results' :
                    /\ StatusOf(test_id) \in Terminal
                    /\ test_id <= older
             /\ test_results' \subseteq test_results
             /\ \A other \in test_results' \ {run} :
                    earlier'[other] = earlier[other]
             /\ UNCHANGED <<result, pc, exc, run>>
      ]_vars

\* C21: a completed record carries a final report and an analysis with an
\* accuracy score between 0 and 100, which is also the record's
\* accuracy_score and the report's final accuracy; this includes the run
\* whose transcript was empty.
C21_CompletedHasReport ==
    result.status = COMPLETED
    => /\ result.final_report.populated
       /\ result.final_report.final_accuracy = result.accuracy_score
       /\ result.llm_analysis.populated
       /\ result.llm_analysis.accuracy_score \in 0..100
       /\ result.accuracy_score = result.llm_analysis.accuracy_score

\* A completed run whose transcript was empty.
C21_Witness ==
    /\ result.status = COMPLETED
    /\ IsBlankText(result.transcribed_text)
    /\ result.llm_analysis = EmptyTranscriptAnalysis
    /\ result.final_report.populated

\* C22: the report of a completed run grades its accuracy score as
\* excellent from 90, good from 80 to below 90, fair from 70 to below 80
\* and needs-improvement ("poor") below 70; the grading does so for every
\* score from 0 to 100.
C22_Grade ==
    /\ \A accuracy \in 0..100 :
          grade_color(accuracy) =
              CASE accuracy \in 90..100 -> "excellent"
                [] accuracy \in 80..89 -> "good"
                [] accuracy \in 70..79 -> "fair"
                [] OTHER -> "poor"
    /\ result.status = COMPLETED
       => LET report == get_test_report(result, 1)
          IN /\ report.kind = "report"
             /\ report.accuracy_score = result.accuracy_score
             /\ report.grade_color = "excellent"
                    <=> result.accuracy_score >= 90
             /\ report.grade_color = "good"
                    <=> result.accuracy_score \in 80..89
             /\ report.grade_color = "fair"
                    <=> result.accuracy_score \in 70..79
             /\ report.grade_color = "poor"
                    <=> result.accuracy_score < 70

\* A completed run served at the end of its task whose report grades a
\* score at the lower edge of a grade.
C22_Witness ==
    /\ pc = "done"
    /\ via = "api"
    /\ result.status = COMPLETED
    /\ result.accuracy_score = 90
    /\ get_test_report(result, 1).grade_color = "excellent"

\* The smallest integer that is not below n / d.
Ceiling(n, d) == (n + d - 1) \div d

\* The record of a run that stands in the stage step at progress.
AtStage(step, progress) ==
    [NewTestResult(<<"CUST">>) EXCEPT !.status = RUNNING,
                                      !.current_step = step,
                                      !.step_progress = progress]

\* The estimate of every stage at every whole progress is the product
\* rounded up.
EstimateRoundsUp ==
    \A k \in 1..TOTAL_STEPS : \A progress \in 0..100 :
        estimate_remaining_time(AtStage(TestStep[k + 1], progress))
            = Ceiling(time_estimates[TestStep[k + 1]] * (100 - progress), 100)

\* The estimate of every stage at every whole progress is at least 1, is
\* 1 when less than one whole second remains, and otherwise is the
\* largest whole number of seconds within base * (100 - progress) / 100.
EstimateRoundsDownToOneOrMore ==
    \A k \in 1..TOTAL_STEPS : \A progress \in 0..100 :
        LET left == time_estimates[TestStep[k + 1]] * (100 - progress)
            estimate ==
                estimate_remaining_time(AtStage(TestStep[k + 1], progress))
        IN /\ estimate >= 1
           /\ left < 100 => estimate = 1
           /\ left >= 100 => /\ estimate * 100 <= left
                             /\ left < (estimate + 1) * 100

\* C23: for every stage and every whole step progress from 0 to 100 the
\* estimated seconds remaining are base * (100 - progress) / 100 rounded
\* up, with the bases 5, 10, 30, 5, 3, 45 and 5; every status reply
\* carries that estimate.
C23_EstimateIsCeiling ==
    /\ EstimateRoundsUp
    /\ \A i \in 1..Len(observed) :
          observed[i].current_step # IDLE
          => observed[i].estimated_time_remaining
                 = Ceiling(time_estimates[observed[i].current_step]
                               * (100 - observed[i].step_progress), 100)

\* C23 as the code has it: the estimate is the product rounded down, and
\* 1 where that would be 0, for every stage and every whole progress from
\* 0 to 100, with the bases 5, 10, 30, 5, 3, 45 and 5; every status reply
\* carries that estimate.
C23_EstimateIsFloorAtLeastOne ==
    /\ <<time_estimates[PREPROCESSING], time_estimates[STARTUP],
         time_estimates[TTS_CONVERSION], time_estimates[RECORDING],
         time_estimates[STORAGE], time_estimates[LLM_ANALYSIS],
         time_estimates[COMPLETION]>> = <<5, 10, 30, 5, 3, 45, 5>>
    /\ EstimateRoundsDownToOneOrMore
    /\ \A i \in 1..Len(observed) :
          observed[i].estimated_time_remaining
              = estimate_remaining_time(
                    AtStage(observed[i].current_step,
                            observed[i].step_progress))

\* A status reply taken during the startup stage, and one taken from the
\* finished run, where no time remains and the estimate is 1.
C23_Witness ==
    /\ Len(observed) = 2
    /\ observed[1].current_step = STARTUP
    /\ observed[1].step_progress \in 1..99
    /\ observed[2].status = COMPLETED
    /\ observed[2].step_progress = 100
    /\ observed[2].estimated_time_remaining = 1

\* The startup probes in the order _step2_startup calls them, and the
\* apis_verified key each one reports to.
Probes == <<"tts.test_connection", "stt.test_connection",
            "llm.test_connection">>

ProbeKeys == <<"tts", "stt", "llm">>

\* C24: the probes are invoked in the order synthesis, transcription,
\* analysis, each at most once, before every other collaborator; a probe
\* that returns false or raises fails the run at startup at once, after
\* which the calls are the probes up to the failing one and nothing else,
\* the task ends failed at startup, and apis_verified holds true for the
\* probes that passed, false for one that returned false and no entry for
\* a probe that was not reached or raised.
C24_StartupProbes ==
    /\ \A i \in 1..Len(calls) :
          IF i <= Len(Probes) THEN calls[i] = Probes[i]
          ELSE calls[i] \notin Range(Probes)
    /\ \A i \in 1..Len(Probes) :
          /\ result.apis_verified[ProbeKeys[i]] # None => Len(calls) >= i
          /\ result.apis_verified[ProbeKeys[i]] = Bool(FALSE)
             => /\ failing_step = STARTUP
                /\ Len(calls) = i
          /\ Len(calls) > i => result.apis_verified[ProbeKeys[i]] = Bool(TRUE)
    /\ failing_step = STARTUP
       => /\ Len(calls) \in 1..Len(Probes)
          /\ result.apis_verified[ProbeKeys[Len(calls)]]
                 \in {Bool(FALSE), None}
          /\ result.current_step = STARTUP
          /\ result.status \in {RUNNING, FAILED}
          /\ pc \in {"run_return", "done"} => result.status = FAILED
          /\ Range(result.completed_steps) = {PREPROCESSING}

\* The transcription probe returned false: the run has ended failed at
\* startup and the analysis probe was never called.
C24_Witness ==
    /\ pc \in {"run_return", "done"}
    /\ result.status = FAILED
    /\ failing_step = STARTUP
    /\ calls = <<"tts.test_connection", "stt.test_connection">>
    /\ result.apis_verified =
           [tts |-> Bool(TRUE), stt |-> Bool(FALSE), llm |-> None]

\* The progress arguments tried on update_step_status.
ProgressArguments == (0 - MaxOvershoot)..(100 + MaxOvershoot)

\* update_step_status brings every progress argument into 0..100 for
\* every stage, whatever the progress of the record was, and
\* complete_current_step then sets 100.
UpdateClamps ==
    \A k \in 1..TOTAL_STEPS : \A progress \in ProgressArguments :
        LET r == update_step_status(AtStage(TestStep[k], 100),
                                    TestStep[k + 1], progress)
        IN /\ r.step_progress = IF progress < 0 THEN 0
                                ELSE IF progress > 100 THEN 100
                                ELSE progress
           /\ r.overall_progress \in 0..(100 * TOTAL_STEPS)
           /\ complete_current_step(r).step_progress = 100

\* C25: step_progress and overall_progress stay within 0..100 in every
\* state; update_step_status brings any progress argument, negative or
\* above 100, into that range; step_progress is 0 in the state right
\* after the record moves to another stage and 100 right after
\* complete_current_step.
C25_ProgressInRange ==
    /\ [](/\ result.step_progress \in 0..100
          /\ result.overall_progress \in 0..(100 * TOTAL_STEPS)
          /\ UpdateClamps)
    /\ [][/\ result'.current_step # result.current_step
             => result'.step_progress = 0
          /\ SameRecord /\ result' = complete_current_step(result)
                        /\ result.current_step # IDLE
             => result'.step_progress = 100
         ]_vars

\* The storage stage has just been completed and later the record has
\* moved on to the analysis stage.
C25_Witness ==
    /\ pc = "step6_check"
    /\ result.current_step = LLM_ANALYSIS
    /\ result.step_progress = 0
    /\ STORAGE \in Range(result.completed_steps)

\* The info mapping the executor of each stage writes.
StageInfo ==
    (PREPROCESSING :> "script_validation_info") @@ (STARTUP :> "startup_info")
    @@ (TTS_CONVERSION :> "tts_generation_info")
    @@ (RECORDING :> "recording_info") @@ (STORAGE :> "storage_metadata")
    @@ (LLM_ANALYSIS :> "stt_info") @@ (COMPLETION :> "cleanup_info")

\* Keys a caller may report for a stage.
ReportedKeys == {"note", "validated_at"}

\* C27: for each of the seven stages, update_step_status with
\* additional_info for that stage leaves every reported key in that
\* stage's info mapping and removes no key that was there, and no step of
\* a run, the executors' own info writes included, removes a key from an
\* info mapping.
C27_InfoMerged ==
    /\ [](\A k \in 1..TOTAL_STEPS : \A additional_info \in SUBSET ReportedKeys :
              LET step == TestStep[k + 1]
                  r == update_step_status_additional_info(
                           result, step, 50, additional_info)
              IN /\ additional_info \subseteq r.info[StageInfo[step]]
                 /\ \A f \in InfoFields : result.info[f] \subseteq r.info[f])
    /\ [][SameRecord
          => \A f \in InfoFields : result.info[f] \subseteq result'.info[f]
         ]_vars

\* The collaborator calls of a run in the order run_full_test reaches
\* them, and the stage whose executor makes each call.
Collaborators ==
    Probes \o <<"tts.generate_dialogue_audio", "cs_mock.simulate_call",
                "storage_mock.store_audio", "stt.transcribe_audio",
                "llm.analyze_conversation">>

CallStage ==
    [c \in Range(Probes) |-> STARTUP]
    @@ ("tts.generate_dialogue_audio" :> TTS_CONVERSION)
    @@ ("cs_mock.simulate_call" :> RECORDING)
    @@ ("storage_mock.store_audio" :> STORAGE)
    @@ ("stt.transcribe_audio" :> LLM_ANALYSIS)
    @@ ("llm.analyze_conversation" :> LLM_ANALYSIS)

\* C28: the collaborator calls of a run are, in order and without
\* repetition, the probes, synthesis, the simulated call, the store,
\* transcription and analysis, up to the point the run has reached; a
\* call of a stage is made only when every earlier stage is in
\* completed_steps and the stage itself is current; once a stage has
\* failed no collaborator is called any more.
C28_CollaboratorOrder ==
    /\ [](/\ Len(calls) <= Len(Collaborators)
          /\ calls = SubSeq(Collaborators, 1, Len(calls)))
    /\ [][SameRecord /\ calls' # calls
          => /\ failing_step = IDLE
             /\ \A i \in (Len(calls) + 1)..Len(calls') :
                   /\ result.current_step = CallStage[calls'[i]]
                   /\ Range(StepPrefix(StepIndex(CallStage[calls'[i]]) - 1))
                          \subseteq Range(result.completed_steps)
         ]_vars

\* A run whose transcription failed after the five calls before it: the
\* analysis was never requested.
C28_Witness ==
    /\ pc \in {"run_return", "done"}
    /\ result.status = FAILED
    /\ failing_step = LLM_ANALYSIS
    /\ Len(calls) = Len(Collaborators) - 1
    /\ calls[Len(calls)] = "stt.transcribe_audio"
    /\ cause = <<"STT_ERROR">>

\* C29: serving a status, result, report, steps or list query changes no
\* field of the record and no entry of the registry, and two queries of
\* the same route served with the same record and registry, hence with no
\* write by the task in between, get the same reply.
C29_PureReads ==
    /\ [][query_request
          => UNCHANGED <<result, test_results, earlier, run, pc,
                         audio_metadata, shelf, test_orchestrator>>]_vars
    /\ [](\A i \in 1..Len(replies) : \A j \in i..Len(replies) :
              /\ replies[i].query = replies[j].query
              /\ replies[i].record = replies[j].record
              /\ replies[i].registry = replies[j].registry
              => replies[i].reply = replies[j].reply)

\* The positions of the lines of a script that have a colon with a
\* customer or agent role name before it, and the speaker of such a line.
DialoguePositions(script) ==
    {i \in 1..Len(script) : script[i] \in {"CUST", "AGENT"}}

Speaker(line) == IF line = "CUST" THEN "customer" ELSE "agent"

\* lines holds one entry for each dialogue position of the script, in
\* script order.
OneLinePerPosition(script, lines) ==
    /\ Len(lines) = Cardinality(DialoguePositions(script))
    /\ \E at \in [1..Len(lines) -> DialoguePositions(script)] :
          /\ \A j \in 1..Len(lines) : \A k \in 1..Len(lines) :
                j < k => at[j] < at[k]
          /\ \A k \in 1..Len(lines) : lines[k] = Speaker(script[at[k]])

\* Every script parses into one line per dialogue position.
ParsesEveryScript ==
    \A script \in Scripts : OneLinePerPosition(script, parse_content(script))

\* C30: parse_content returns, in script order, exactly one dialogue
\* line for each line that has a colon with a customer or agent role name
\* before it and skips every other line; once preprocessing has
\* completed parsed_dialogue_count is the number of those lines; a run on
\* a script that is not blank and has no such line fails at preprocessing
\* with parsed_dialogue_count still 0.
C30_ParseContent ==
    /\ ParsesEveryScript
    /\ PREPROCESSING \in Range(result.completed_steps)
       => /\ result.parsed_dialogue_count
                 = Cardinality(DialoguePositions(result.original_script))
          /\ result.parsed_dialogue_count > 0
    /\ result.status \in Terminal
       => /\ ( /\ ~IsBlank(result.original_script)
               /\ DialoguePositions(result.original_script) = {} )
             <=> ( /\ failing_step = PREPROCESSING
                   /\ cause = <<"NO_DIALOGUE">> )
          /\ cause = <<"NO_DIALOGUE">>
             => /\ result.status = FAILED
                /\ result.current_step = PREPROCESSING
                /\ result.parsed_dialogue_count = 0
                /\ result.completed_steps = <<>>

\* A run on a script of two lines, neither of them a dialogue line, has
\* failed at preprocessing.
C30_Witness ==
    /\ pc \in {"run_return", "done"}
    /\ result.original_script = <<"TEXT", "OTHER">>
    /\ result.status = FAILED
    /\ failing_step = PREPROCESSING
    /\ cause = <<"NO_DIALOGUE">>
    /\ result.parsed_dialogue_count = 0

\* What a run is given: its script and what its collaborators answered.
Given(task) ==
    <<task.result.original_script, task.calls, task.failing_step, task.cause,
      task.llm_response, task.result.apis_verified,
      task.result.transcribed_text, task.result.accuracy_score>>

\* C26 as claimed: no variable written by the task of one run is written
\* by the task of another run: a task writes the storage mock's mapping
\* only if no task of another run has written it.
C26_NoSharedState ==
    [][audio_metadata' # audio_metadata
       => \A file_id \in DOMAIN audio_metadata :
              audio_metadata[file_id] = run
      ]_vars

\* C26 as the code has it: the tasks of two runs in flight share the
\* storage mock's mapping, to which each run adds one entry of its own
\* under a new file id without changing or removing an entry; a step of
\* one task changes nothing of the other task and its record, which runs
\* on with exactly what it was suspended with; and the records of two
\* runs that were given the same script and the same answers end up
\* equal, however the tasks were interleaved.
C26_Isolation ==
    /\ [][/\ \A file_id \in DOMAIN audio_metadata :
                /\ file_id \in DOMAIN audio_metadata'
                /\ audio_metadata'[file_id] = audio_metadata[file_id]
          /\ \A file_id \in DOMAIN audio_metadata' \ DOMAIN audio_metadata :
                /\ audio_metadata'[file_id] = run
                /\ pc = "step5_store"
                /\ run \notin Range(audio_metadata)
          /\ \/ suspended' = suspended
             \/ suspended = <<>> /\ Running' = Running
                                 /\ suspended'[1].pc = "scheduled"
             \/ /\ suspended # <<>>
                /\ suspended' = <<Running>>
                /\ Running' = suspended[1]
         ]_vars
    /\ [](/\ suspended # <<>>
          /\ pc = "done"
          /\ suspended[1].pc = "done"
          /\ Given(Running) = Given(suspended[1])
          => result = suspended[1].result)

\* Both runs have completed, and the run that was started second stored
\* its recording first: the task of the first run was suspended before
\* its store while the second ran.
C26_Witness ==
    /\ suspended # <<>>
    /\ pc = "done"
    /\ suspended[1].pc = "done"
    /\ result.status = COMPLETED
    /\ suspended[1].result.status = COMPLETED
    /\ Given(Running) = Given(suspended[1])
    /\ DOMAIN audio_metadata = {1, 2}
    /\ audio_metadata[1] > audio_metadata[2]

\* The answer get_storage_stats would give and the answer retrieve_audio
\* would give for every id agree with the ids stored and not since
\* deleted.
StoreAnswersFor(stored) ==
    /\ \A file_id \in FileIds :
          retrieve_audio(audio_metadata, audio_files, file_id).value # None
              <=> file_id \in stored
    /\ get_storage_stats(audio_metadata).total_files = Cardinality(stored)

\* C31: as long as the stored files are left in place, after any sequence
\* of store_audio and delete_audio calls retrieve_audio answers with an
\* artifact exactly for the ids stored and not since deleted,
\* get_storage_stats().total_files is the number of those ids, and a
\* delete_audio of an id that is not among them answers False and changes
\* nothing.
C31_AudioStore ==
    storage_hist.in_place
    => /\ StoreAnswersFor(storage_hist.stored)
       /\ storage_hist.op = "retrieve"
          => (storage_hist.value # None <=> storage_hist.known)
       /\ storage_hist.op = "stats"
          => storage_hist.value.total_files = Cardinality(storage_hist.stored)
       /\ storage_hist.op = "delete" /\ ~storage_hist.known
          => /\ storage_hist.value = Bool(FALSE)
             /\ audio_metadata = storage_hist.before
             /\ audio_files = storage_hist.files_before

\* Two files were stored and the first deleted, and now a delete of the
\* first again has answered False.
C31_Witness ==
    /\ storage_hist.in_place
    /\ storage_hist.stored = {2}
    /\ storage_hist.op = "delete"
    /\ storage_hist.file_id = 1
    /\ ~storage_hist.known
    /\ storage_hist.value = Bool(FALSE)
    /\ DOMAIN audio_metadata = {2}

\* The kinds of answer the backend can give to an attempt.
AnswerKinds == {resp.kind : resp \in Responses}

\* C32: during one analyze_conversation call the backend is called at
\* most 3 times, the first attempt and at most 2 retries; an attempt
\* other than the first follows only an API error of the attempt before
\* it; the answer to the first attempt that succeeds is the one parsed
\* into the record; and a third API error in a row makes the call raise,
\* so that the run ends failed at llm_analysis.
C32_Retries ==
    /\ [](/\ retry_count \in 0..2
          /\ retry_count > 0
             => pc = "step6_analyze" /\ llm_response = "api_error"
          /\ (Returned /\ llm_response = "api_error")
             => /\ result.status = FAILED
                /\ result.current_step = LLM_ANALYSIS
                /\ failing_step = LLM_ANALYSIS
                /\ LLM_ANALYSIS \notin Range(result.completed_steps))
    /\ [][pc = "step6_analyze"
          => \/ pc' = pc /\ retry_count' = retry_count /\ result' = result
             \/ /\ pc' = pc
                /\ retry_count' = retry_count + 1
                /\ llm_response' = "api_error"
                /\ result' = result
             \/ /\ pc' = "step6_complete"
                /\ retry_count' = 0
                /\ \E resp \in Responses :
                      /\ llm_response' = resp.kind
                      /\ result'.llm_analysis =
                             parse_analysis_response(resp).analysis
                      /\ result'.accuracy_score =
                             parse_analysis_response(resp).analysis
                                 .accuracy_score
             \/ /\ pc' = "run_except"
                /\ retry_count' = 0
                /\ failing_step' = LLM_ANALYSIS
                /\ llm_response' = "api_error" => retry_count = 2
         ]_vars
    /\ [][(pc = "step6_analyze" /\ retry_count = 2
              /\ llm_response' = "api_error")
          => pc' \in {pc, "run_except"}
         ]_vars

\* The third attempt of a call has raised an API error as the two before
\* it, and the run has ended failed at llm_analysis.
C32_Witness ==
    /\ pc = "done"
    /\ llm_response = "api_error"
    /\ cause = <<"LLM_ERROR", "API_ERROR">>
    /\ result.status = FAILED
    /\ result.current_step = LLM_ANALYSIS

\* C33: a start request with an empty or white-space-only script is
\* answered with status code 400 and a start request while there is no
\* orchestrator with 503; and such a request puts no record into the
\* registry and schedules no task.
C33_Rejected ==
    /\ [](/\ response.raised = 400 => response.status_code = 400
          /\ response.raised = 503 => response.status_code = 503)
    /\ [][(response' # response /\ response'.raised # 0)
          => UNCHANGED <<test_results, run, pc, result, suspended>>
         ]_vars

\* The messages of the checks of an earlier artifact in steps 4, 5 and 6.
PreconditionFailures == {<<"TTS_AUDIO_MISSING">>, <<"RECORDING_MISSING">>}

\* C34: in every run of run_full_test the checks of steps 4, 5 and 6 for
\* the artifact of an earlier step never fail: when the executor of
\* recording comes to its check tts_audio is set, when the executors of
\* storage and of analysis come to theirs recorded_audio is set, and no
\* run fails with the message of one of these checks.
C34_PreconditionsHold ==
    /\ pc \in {"step4_begin", "step4_check"} => result.tts_audio # None
    /\ pc \in {"step5_begin", "step5_check", "step6_begin", "step6_check"}
       => result.recorded_audio # None
    /\ cause \notin PreconditionFailures
    /\ exc.msg \notin {<<STEP_FAILED[step]>> \o msg :
                           step \in {RECORDING, STORAGE, LLM_ANALYSIS},
                           msg \in PreconditionFailures}

\* The executor of analysis is at its check of recorded_audio, after the
\* executors of recording and storage have passed theirs.
C34_Witness ==
    /\ pc = "step6_check"
    /\ result.recorded_audio # None
    /\ result.tts_audio # None
    /\ result.completed_steps = StepPrefix(5)

\* C35: every snapshot of a record that a reader can get, while the task
\* of the run is suspended in an awaited collaborator call or after the
\* run has ended, a run that failed before its first stage update
\* included, is consistent across its fields: overall_progress is
\* calculate_overall_progress of the snapshot's own current_step,
\* step_progress and completed_steps.
C35_SnapshotConsistent ==
    pc \in SuspensionPoints
    => result.overall_progress = calculate_overall_progress(result)

\* C36: every run that start_test has created and that has not reached a
\* terminal status, pending with its task scheduled or running, is in the
\* registry, whatever delete and cleanup requests are served between the
\* steps of its task; so the task of a run never executes on a record
\* that is not in the registry.
C36_LiveRunsRegistered ==
    via = "api"
    => /\ result.status \in {PENDING, RUNNING} => run \in test_results
       /\ pc \notin {"scheduled", "done"} => run \in test_results

\* The moves of a sub-phase of the analysis step.
StageMoves ==
    {<<"pending", "processing">>, <<"processing", "completed">>}

\* C37: stt_stage and llm_stage each move only from pending to processing
\* and from processing to completed; llm_stage leaves pending only after
\* stt_stage is completed, so the two are never both processing; and in
\* every terminal record neither is processing, so the status reply for a
\* terminal run carries no sub_stage label.
C37_SubPhases ==
    /\ [](/\ result.llm_stage # "pending" => result.stt_stage = "completed"
          /\ result.status \in Terminal
             => /\ result.stt_stage # "processing"
                /\ result.llm_stage # "processing"
                /\ get_status_response(result).sub_stage = None)
    /\ [][SameRecord
          => /\ result'.stt_stage # result.stt_stage
                => <<result.stt_stage, result'.stt_stage>> \in StageMoves
             /\ result'.llm_stage # result.llm_stage
                => <<result.llm_stage, result'.llm_stage>> \in StageMoves
         ]_vars

\* C38: in every completed run final_report.steps_completed is the number
\* of entries of the record's completed_steps, 7: the figure kept in the
\* final report agrees with the completed_steps count that the report
\* query shows.
C38_StepsCompletedAgree ==
    result.status = COMPLETED
    => /\ result.final_report.steps_completed = Len(result.completed_steps)
       /\ result.final_report.steps_completed = 7
       /\ result.final_report.steps_completed
              = get_test_report(result, 1).completed_steps

\* C39: a status query can be served while the run is running in each of
\* the seven stages: no stage runs from its start to its completion
\* between two points at which the task yields to readers, so every stage
\* a run has completed is one in which its task has been suspended with
\* the status running, and a poller could see it there.
C39_EveryStageYields ==
    \A step \in Range(result.completed_steps) : step \in yields

====
